---- MODULE Spec2Model ----
(***************************************************************************)
(* A model of the RAG gateway of chatbot-rag-server: the cache service     *)
(* (CacheService, getCacheService), the orchestrator (LLMService.generate, *)
(* LLMService.generateWithContext) and the handles they share.             *)
(*                                                                         *)
(* Strings are sequences of UTF-16 code units, as String.charCodeAt reads  *)
(* them.  Scores and minScore are counted in thousandths.                  *)
(***************************************************************************)
EXTENDS Integers, Sequences, FiniteSets, TLC

(***************************************************************************)
(* String literals of the source.                                          *)
(***************************************************************************)
\* the model identifier "mistral:7b-instruct-v0.2-q3_K_S"
ModelName ==
  <<109, 105, 115, 116, 114, 97, 108, 58, 55, 98, 45, 105, 110, 115, 116, 114, 117, 99,
  116, 45, 118, 48, 46, 50, 45, 113, 51, 95, 75, 95, 83>>

\* "unknown-model"
UnknownModel ==
  <<117, 110, 107, 110, 111, 119, 110, 45, 109, 111, 100, 101, 108>>

\* "llm:"
LlmPrefix ==
  <<108, 108, 109, 58>>

\* ":temp"
TempInfix ==
  <<58, 116, 101, 109, 112>>

\* ":"
Colon ==
  <<58>>

\* "cache:"
CachePrefix ==
  <<99, 97, 99, 104, 101, 58>>

\* "rag:"
RagPrefix ==
  <<114, 97, 103, 58>>

\* ":docs"
DocsInfix ==
  <<58, 100, 111, 99, 115>>

\* ":score"
ScoreInfix ==
  <<58, 115, 99, 111, 114, 101>>

\* "Error generating response: "
ErrorPrefix ==
  <<69, 114, 114, 111, 114, 32, 103, 101, 110, 101, 114, 97, 116, 105, 110, 103, 32, 114,
  101, 115, 112, 111, 110, 115, 101, 58, 32>>

\* "Answer this question: "
NoContextHead ==
  <<65, 110, 115, 119, 101, 114, 32, 116, 104, 105, 115, 32, 113, 117, 101, 115, 116, 105,
  111, 110, 58, 32>>

\* "\n\nNote: No specific context documents were available."
NoContextTail ==
  <<10, 10, 78, 111, 116, 101, 58, 32, 78, 111, 32, 115, 112, 101, 99, 105, 102, 105, 99,
  32, 99, 111, 110, 116, 101, 120, 116, 32, 100, 111, 99, 117, 109, 101, 110, 116, 115,
  32, 119, 101, 114, 101, 32, 97, 118, 97, 105, 108, 97, 98, 108, 101, 46>>

\* the augmented prompt up to and including "CONTEXT:" and the indentation before the context
AugmentedHead ==
  <<89, 111, 117, 32, 97, 114, 101, 32, 97, 32, 104, 101, 108, 112, 102, 117, 108, 32, 97,
  115, 115, 105, 115, 116, 97, 110, 116, 32, 116, 104, 97, 116, 32, 97, 110, 115, 119,
  101, 114, 115, 32, 113, 117, 101, 115, 116, 105, 111, 110, 115, 32, 98, 97, 115, 101,
  100, 32, 111, 110, 32, 116, 104, 101, 32, 112, 114, 111, 118, 105, 100, 101, 100, 32,
  99, 111, 110, 116, 101, 120, 116, 46, 10, 10, 32, 32, 32, 32, 73, 78, 83, 84, 82, 85,
  67, 84, 73, 79, 78, 83, 58, 10, 32, 32, 32, 32, 45, 32, 85, 115, 101, 32, 116, 104, 101,
  32, 99, 111, 110, 116, 101, 120, 116, 32, 98, 101, 108, 111, 119, 32, 116, 111, 32, 97,
  110, 115, 119, 101, 114, 32, 116, 104, 101, 32, 113, 117, 101, 115, 116, 105, 111, 110,
  10, 32, 32, 32, 32, 45, 32, 73, 102, 32, 116, 104, 101, 32, 99, 111, 110, 116, 101, 120,
  116, 32, 100, 111, 101, 115, 110, 39, 116, 32, 99, 111, 110, 116, 97, 105, 110, 32, 101,
  110, 111, 117, 103, 104, 32, 105, 110, 102, 111, 114, 109, 97, 116, 105, 111, 110, 32,
  116, 111, 32, 102, 117, 108, 108, 121, 32, 97, 110, 115, 119, 101, 114, 32, 116, 104,
  101, 32, 113, 117, 101, 115, 116, 105, 111, 110, 44, 32, 115, 97, 121, 32, 115, 111, 32,
  99, 108, 101, 97, 114, 108, 121, 10, 32, 32, 32, 32, 45, 32, 66, 101, 32, 115, 112, 101,
  99, 105, 102, 105, 99, 32, 97, 110, 100, 32, 99, 105, 116, 101, 32, 114, 101, 108, 101,
  118, 97, 110, 116, 32, 112, 97, 114, 116, 115, 32, 111, 102, 32, 116, 104, 101, 32, 99,
  111, 110, 116, 101, 120, 116, 32, 119, 104, 101, 110, 32, 112, 111, 115, 115, 105, 98,
  108, 101, 10, 32, 32, 32, 32, 45, 32, 73, 102, 32, 109, 117, 108, 116, 105, 112, 108,
  101, 32, 115, 111, 117, 114, 99, 101, 115, 32, 112, 114, 111, 118, 105, 100, 101, 32,
  99, 111, 110, 102, 108, 105, 99, 116, 105, 110, 103, 32, 105, 110, 102, 111, 114, 109,
  97, 116, 105, 111, 110, 44, 32, 97, 99, 107, 110, 111, 119, 108, 101, 100, 103, 101, 32,
  116, 104, 105, 115, 10, 10, 32, 32, 32, 32, 67, 79, 78, 84, 69, 88, 84, 58, 10, 32, 32,
  32, 32>>

\* the augmented prompt between the context and the question ("QUESTION: ")
AugmentedMiddle ==
  <<10, 10, 32, 32, 32, 32, 81, 85, 69, 83, 84, 73, 79, 78, 58, 32>>

\* the augmented prompt after the question
AugmentedTail ==
  <<10, 10, 32, 32, 32, 32, 80, 108, 101, 97, 115, 101, 32, 112, 114, 111, 118, 105, 100,
  101, 32, 97, 32, 99, 111, 109, 112, 114, 101, 104, 101, 110, 115, 105, 118, 101, 32, 97,
  110, 115, 119, 101, 114, 32, 98, 97, 115, 101, 100, 32, 111, 110, 32, 116, 104, 101, 32,
  99, 111, 110, 116, 101, 120, 116, 32, 97, 98, 111, 118, 101, 58>>

\* "SOURCE: "
SourceLabel ==
  <<83, 79, 85, 82, 67, 69, 58, 32>>

\* "\nCONTENT: "
ContentLabel ==
  <<10, 67, 79, 78, 84, 69, 78, 84, 58, 32>>

\* "Document "
DocumentLabel ==
  <<68, 111, 99, 117, 109, 101, 110, 116, 32>>

\* " (relevance: "
RelevanceOpen ==
  <<32, 40, 114, 101, 108, 101, 118, 97, 110, 99, 101, 58, 32>>

\* ")"
RelevanceClose ==
  <<41>>

\* "\n\n---\n\n"
Delimiter ==
  <<10, 10, 45, 45, 45, 10, 10>>

(***************************************************************************)
(* Number rendering.                                                       *)
(***************************************************************************)
\* the decimal digits of a natural number, String(n)
RECURSIVE Digits(_)
Digits(n) ==
  IF n < 10 THEN <<48 + n>> ELSE Append(Digits(n \div 10), 48 + (n % 10))

\* the fraction digits of f thousandths without trailing zeros
FractionDigits(f) ==
  IF f % 100 = 0 THEN <<48 + (f \div 100)>>
  ELSE IF f % 10 = 0 THEN <<48 + (f \div 100), 48 + ((f \div 10) % 10)>>
  ELSE <<48 + (f \div 100), 48 + ((f \div 10) % 10), 48 + (f % 10)>>

\* Number.prototype.toString of m/1000, m >= 0, as a template literal renders it
NumberToString(m) ==
  IF m % 1000 = 0 THEN Digits(m \div 1000)
  ELSE Digits(m \div 1000) \o <<46>> \o FractionDigits(m % 1000)

\* Number.prototype.toFixed(3) of m/1000, m >= 0
ToFixed3(m) ==
  Digits(m \div 1000) \o
  <<46, 48 + ((m % 1000) \div 100), 48 + ((m \div 10) % 10), 48 + (m % 10)>>

(***************************************************************************)
(* 32-bit arithmetic.  A 32-bit word is the pair <<hi, lo>> of its 16-bit  *)
(* halves; ToInt32 of a sum or difference is taken modulo 2^32.            *)
(***************************************************************************)
Half == 256 * 256

Zero32 == <<0, 0>>

\* w << 5
Shl5(w) ==
  LET lo == w[2] * 32
  IN  <<(w[1] * 32 + (lo \div Half)) % Half, lo % Half>>

\* a - b, modulo 2^32
Sub32(a, b) ==
  LET lo == a[2] - b[2]
      borrow == IF lo < 0 THEN 1 ELSE 0
  IN  <<(a[1] - b[1] - borrow + 2 * Half) % Half, (lo + Half) % Half>>

\* w + c for a code unit c, modulo 2^32
AddChar32(w, c) ==
  LET lo == w[2] + c
  IN  <<(w[1] + (lo \div Half)) % Half, lo % Half>>

\* the word is negative as a signed 32-bit integer
IsNegative32(w) == w[1] >= Half \div 2

\* Math.abs of the signed value: a magnitude in 0 .. 2^31, again as halves
Abs32(w) == IF IsNegative32(w) THEN Sub32(Zero32, w) ELSE w

\* one step of the loop of hashPrompt
HashStep(hash, char) == AddChar32(Sub32(Shl5(hash), hash), char)

\* the loop of hashPrompt over prompt[lo .. hi], entered with hash.  The steps are
\* taken in index order; the range is halved, and the hash reached at the middle is
\* bound as a value (l) before the second half runs, so the evaluation stays shallow
RECURSIVE HashRange(_, _, _, _)
HashRange(prompt, lo, hi, hash) ==
  IF lo > hi THEN hash
  ELSE IF lo = hi THEN HashStep(hash, prompt[lo])
  ELSE LET mid == (lo + hi) \div 2
       IN  CHOOSE h \in {HashRange(prompt, mid + 1, hi, l) :
                            l \in {HashRange(prompt, lo, mid, hash)}} : TRUE

\* a base-36 digit as a code unit: 0-9, a-z
Digit36(d) == IF d < 10 THEN 48 + d ELSE 87 + d

\* the magnitude divided by 36: <<quotient, remainder>>
DivMod36(w) ==
  LET rest == (w[1] % 36) * Half + w[2]
  IN  <<(<<w[1] \div 36, rest \div 36>>), rest % 36>>

\* Number.prototype.toString(36) of a magnitude
RECURSIVE ToString36(_)
ToString36(w) ==
  LET qr == DivMod36(w)
  IN  IF qr[1] = Zero32 THEN <<Digit36(qr[2])>>
      ELSE Append(ToString36(qr[1]), Digit36(qr[2]))

\* LLMService.hashPrompt
hashPrompt(prompt) == ToString36(Abs32(HashRange(prompt, 1, Len(prompt), Zero32)))

(***************************************************************************)
(* Bounds of the model and the inputs drawn within them.                   *)
(***************************************************************************)
\* the number of requests made while the constructor's initializeCache still polls
MaxEarlyCalls == 1

\* the prompts requests are made with: "Q"
Prompts == {<<81>>}

\* JavaScript null, where a string may also stand
Null == <<-1>>

\* a string response of the backend
StringResponse(value) == [kind |-> "string", value |-> value]

\* what ollama.invoke may resolve to: the strings "" and "A"
Responses == {StringResponse(<<>>), StringResponse(<<65>>)}

\* what the backend answers a generateStream with: those, and "A B", two tokens
StreamResponses == Responses \cup {StringResponse(<<65, 32, 66>>)}

\* the messages ollama.invoke may reject with: "E"
ErrorMessages == {<<69>>}

\* the documents the index may rank for a query, best first: page content "x"
\* from source "a" with score 0.9, page content "y" without source with score 0.2
Ranked ==
  << [pageContent |-> <<120>>, source |-> <<97>>, score |-> 900],
     [pageContent |-> <<121>>, source |-> <<>>, score |-> 200] >>

(***************************************************************************)
(* LLMService: configuration and keys.                                     *)
(***************************************************************************)
\* ollama.model
OllamaModel == ModelName

\* ollama.temperature, in thousandths
OllamaTemperature == 700

\* the temperature createCacheKey falls back to, in thousandths
FallbackTemperature == 700

\* the defaults of generateWithContext's options
DefaultMaxDocs == 3

DefaultMinScore == 0

DefaultOptions ==
  [maxDocs |-> DefaultMaxDocs, minScore |-> DefaultMinScore, includeScores |-> FALSE]

\* the options requests are made with: none, and {includeScores: true}
OptionSets == {DefaultOptions, [DefaultOptions EXCEPT !.includeScores = TRUE]}

\* "ping", the prompt the route generates with
PingPrompt == << 112, 105, 110, 103 >>

\* the prompt of the requests that are in service at the same time: "Q"
SharedPrompt == << 81 >>

\* the prompt generateWithContext hands to generate when no document survives
noContextPrompt(prompt) == NoContextHead \o prompt \o NoContextTail

\* the text generateWithContext hands to createCacheKey
ragText(prompt, maxDocs, minScore) ==
  RagPrefix \o prompt \o DocsInfix \o Digits(maxDocs) \o ScoreInfix
    \o NumberToString(minScore)

\* the texts the requests hash: their prompts, and what generateWithContext makes
\* of them
HashedTexts ==
  LET asked == Prompts \cup {PingPrompt, SharedPrompt}
  IN  asked \cup {noContextPrompt(q) : q \in asked}
            \cup {ragText(q, DefaultMaxDocs, DefaultMinScore) : q \in asked}

\* hashPrompt of each of them, computed once
hashes == [text \in HashedTexts |-> hashPrompt(text)]

\* hashPrompt(text), from hashes where it is kept there
hashed(text) == IF text \in HashedTexts THEN hashes[text] ELSE hashPrompt(text)

\* LLMService.createCacheKey
createCacheKey(prompt) ==
  LET modelKey == IF OllamaModel = <<>> THEN UnknownModel ELSE OllamaModel
      temperature ==
        IF OllamaTemperature = 0 THEN FallbackTemperature ELSE OllamaTemperature
  IN  LlmPrefix \o modelKey \o TempInfix \o NumberToString(temperature) \o Colon
        \o hashed(prompt)

\* the key generateWithContext reads and writes
contextCacheKey(prompt, maxDocs, minScore) ==
  createCacheKey(ragText(prompt, maxDocs, minScore))

\* a retrieved document as the context shows it; index counts from 1
FormatDoc(doc, index) ==
  LET source == IF doc.source = <<>> THEN DocumentLabel \o Digits(index) ELSE doc.source
      score ==
        IF doc.hasScore /\ doc.score # 0
          THEN RelevanceOpen \o ToFixed3(doc.score) \o RelevanceClose
          ELSE <<>>
  IN  SourceLabel \o source \o score \o ContentLabel \o doc.pageContent

RECURSIVE JoinDocs(_, _)
JoinDocs(docs, index) ==
  IF index > Len(docs) THEN <<>>
  ELSE IF index = Len(docs) THEN FormatDoc(docs[index], index)
  ELSE FormatDoc(docs[index], index) \o Delimiter \o JoinDocs(docs, index + 1)

\* the prompt generateWithContext invokes the backend with
augmentedPrompt(relevantDocs, prompt) ==
  AugmentedHead \o JoinDocs(relevantDocs, 1) \o AugmentedMiddle \o prompt
    \o AugmentedTail

\* the filter of generateWithContext with > in place of >=
relevantDocsAbove(found, minScore, includeScores) ==
  IF includeScores
    THEN LET kept == SelectSeq(found, LAMBDA d : d.score > minScore)
         IN  [i \in 1..Len(kept) |->
               [pageContent |-> kept[i].pageContent, source |-> kept[i].source,
                hasScore |-> TRUE, score |-> kept[i].score]]
    ELSE [i \in 1..Len(found) |->
           [pageContent |-> found[i].pageContent, source |-> found[i].source,
            hasScore |-> FALSE, score |-> 0]]

\* the documents generateWithContext keeps of a search result
relevantDocsOf(found, minScore, includeScores) ==
  IF includeScores
    THEN LET kept == SelectSeq(found, LAMBDA d : d.score >= minScore)
         IN  [i \in 1..Len(kept) |->
               [pageContent |-> kept[i].pageContent, source |-> kept[i].source,
                hasScore |-> TRUE, score |-> kept[i].score]]
    ELSE [i \in 1..Len(found) |->
           [pageContent |-> found[i].pageContent, source |-> found[i].source,
            hasScore |-> FALSE, score |-> 0]]

\* the truthiness of a string-or-null
Truthy(value) == value # Null /\ value # <<>>

\* "[object Object]"
ObjectObject == <<91, 111, 98, 106, 101, 99, 116, 32, 79, 98, 106, 101, 99, 116, 93>>

\* LLMService.extractResponseText.  A response is a string, or an object whose
\* fields content, text, message, output and response hold a string or Null when
\* absent, and whose toString() yields str
extractResponseText(response) ==
  IF response.kind = "string" THEN response.value
  ELSE IF Truthy(response.content) THEN response.content
  ELSE IF Truthy(response.text) THEN response.text
  ELSE IF Truthy(response.message) THEN response.message
  ELSE IF Truthy(response.output) THEN response.output
  ELSE IF Truthy(response.response) THEN response.response
  ELSE response.str

\* SimpleCacheAdapter's key in the store
FullKey(key) == CachePrefix \o key

(***************************************************************************)
(* The state.                                                              *)
(***************************************************************************)
VARIABLES
  redisUp,              \* the Redis server answers
  redis,                \* the entries of the Redis server, key to value
  cacheServiceInstance, \* the singleton of getCacheService is created
  isConnected,          \* CacheService.isConnected of the singleton
  instancesCreated,     \* the CacheService instances getCacheService has created
  handedOut,            \* how the calls of getCacheService have ended
  initPc,               \* the initializeCache the constructor started
  attempts,             \* the attempts of its getCacheService call
  cacheService,         \* LLMService.cacheService
  isInitialized,        \* LLMService.isInitialized
  vectorInitPc,         \* the initializeVectorStore the constructor started
  embeddingDims,        \* the embeddingDims of that initializeVectorStore
  vectorStore,          \* VectorStoreService.vectorStore is set
  vectorIsInitialized,  \* VectorStoreService.isInitialized
  req,                  \* the request being served
  last,                 \* what the request served before it left in the cache
  earlyCalls            \* the requests made while the constructor's
                        \* initializeCache polled

VARIABLES
  cacheOp,              \* the last direct operation of the CacheService singleton
  embedUp,              \* the embeddings endpoint of Ollama answers
  qdrantUp,             \* Qdrant answers
  collection,           \* the vector width of the persisted collection, 0: absent
  modelWidth,           \* the width of the vectors the embedding model returns
  embeddingDimensions,  \* OllamaEmbeddings.embeddingDimensions, 0: null
  vop,                  \* the last operation of the VectorStoreService
  health,               \* what the last LLMService.healthCheck returned
  keyed                 \* the last derivation of cache keys

VARIABLES
  applied,              \* the last application of a pure function: inputs and result
  moduleConnected,      \* CacheService.isConnected of the module-level cacheService
  shutdown,             \* the handling of SIGTERM or SIGINT and what it has done
  served,               \* the last response of GET /health
  concurrent            \* the generate requests in service at the same time

moreVars == << applied, moduleConnected, shutdown, served, concurrent >>

\* the state of the operations beside generate and generateWithContext
extVars ==
  << cacheOp, embedUp, qdrantUp, collection, modelWidth, embeddingDimensions, vop,
     health, keyed, moreVars >>

vars ==
  << redisUp, redis, cacheServiceInstance, isConnected, instancesCreated, handedOut,
     initPc, attempts, cacheService, isInitialized, vectorInitPc, embeddingDims,
     vectorStore,
     vectorIsInitialized, req, last, earlyCalls, extVars >>

cacheVars == << redisUp, redis, isConnected >>
singletonVars == << cacheServiceInstance, instancesCreated, handedOut, initPc, attempts >>
llmVars == << cacheService, isInitialized >>
vectorVars == << vectorInitPc, embeddingDims, vectorStore, vectorIsInitialized >>

\* getCacheService polls at most this often
maxAttempts == 50

\* no request
NoRequest ==
  [op |-> "none", prompt |-> <<>>, options |-> DefaultOptions, pc |-> "idle",
   gPrompt |-> <<>>, cacheKey |-> <<>>, gCaller |-> "none", ragKey |-> <<>>,
   relevantDocs |-> <<>>, responseText |-> <<>>, outcome |-> "pending",
   result |-> <<>>, log |-> <<>>, at |-> "none", onToken |-> FALSE,
   tokens |-> <<>>]

\* no request has left a response under a RAG key
NothingLeft ==
  [kind |-> "none", prompt |-> <<>>, maxDocs |-> 0, minScore |-> 0,
   includeScores |-> FALSE, text |-> <<>>]

\* what a request did, as its log keeps it: a lookup of key that returned text, an
\* invoke with prompt that resolved to text (ok) or rejected with the message text,
\* an update of key with text that succeeded (ok) or threw, a search that the index
\* answered (ok) or not, a call of vectorStoreService.isReady that returned ok.
\* init is the state the constructor's initializeCache was in; stored tells of an
\* update that its setEx was answered, so that the text is in the store
Event(type, key, prompt, text, ok) ==
  [type |-> type, key |-> key, prompt |-> prompt, text |-> text, ok |-> ok,
   init |-> initPc, stored |-> FALSE]

Logged(r, event) == [r EXCEPT !.log = Append(@, event)]

\* no operation beside generate and generateWithContext has been made
NoOperation == [op |-> "none"]

\* the embedding model's width when nothing is known of it
FallbackDimensions == 384

\* no signal has arrived
NoSignal == [pc |-> "running", llm |-> "idle", disconnects |-> << >>]

\* nothing is applied, the module-level instance is not connected yet, no signal
\* has arrived, GET /health has not been served, no requests run side by side
MoreIdle ==
  /\ applied = NoOperation
  /\ moduleConnected = FALSE
  /\ shutdown = NoSignal
  /\ served = NoOperation
  /\ concurrent = NoOperation

\* the operations beside generate and generateWithContext are not in use: the
\* collection is absent, the embedding model has the fallback width
ExtIdle ==
  /\ cacheOp = NoOperation
  /\ embedUp = TRUE
  /\ qdrantUp = TRUE
  /\ collection = 0
  /\ modelWidth = FallbackDimensions
  /\ embeddingDimensions = 0
  /\ vop = NoOperation
  /\ health = NoOperation
  /\ keyed = NoOperation
  /\ MoreIdle

Init ==
  /\ redisUp \in BOOLEAN
  /\ redis = << >>
  /\ cacheServiceInstance = FALSE
  /\ isConnected = FALSE
  /\ instancesCreated = 0
  /\ handedOut = {}
  /\ initPc = "new"
  /\ attempts = 0
  /\ cacheService = "null"
  /\ isInitialized = FALSE
  /\ vectorInitPc = "running"
  /\ embeddingDims = 0
  /\ vectorStore = FALSE
  /\ vectorIsInitialized = FALSE
  /\ req = NoRequest
  /\ last = NothingLeft
  /\ earlyCalls = 0
  /\ ExtIdle

(***************************************************************************)
(* The Redis server and the client's events.                               *)
(***************************************************************************)
RedisGoesDown ==
  /\ redisUp
  /\ redisUp' = FALSE
  /\ UNCHANGED << redis, isConnected, singletonVars, llmVars, vectorVars, req, last, earlyCalls,
                  extVars >>

RedisComesUp ==
  /\ ~redisUp
  /\ redisUp' = TRUE
  /\ UNCHANGED << redis, isConnected, singletonVars, llmVars, vectorVars, req, last, earlyCalls,
                  extVars >>

\* client.on('connect'), and the connect() of the constructor resolving
ClientConnects ==
  /\ cacheServiceInstance
  /\ redisUp
  /\ ~isConnected
  /\ isConnected' = TRUE
  /\ UNCHANGED << redisUp, redis, singletonVars, llmVars, vectorVars, req, last, earlyCalls,
                  extVars >>

\* client.on('error')
ClientError ==
  /\ cacheServiceInstance
  /\ ~redisUp
  /\ isConnected
  /\ isConnected' = FALSE
  /\ UNCHANGED << redisUp, redis, singletonVars, llmVars, vectorVars, req, last, earlyCalls,
                  extVars >>

(***************************************************************************)
(* CacheService.                                                           *)
(***************************************************************************)
\* CacheService.isReady
isReady == isConnected

\* CacheService.getStatus().connected
statusConnected == isConnected

\* A call of CacheService runs from one await to the next: "connect" is the
\* client.connect() of ensureConnection, made unless isConnected; the calls of the
\* client the operation makes follow it ("get", "setEx", "verify", ...).

\* the call of the client that is awaited is answered: it resolves, else it rejects
ClientCallSucceeds == redisUp

\* what a call awaits first, isConnected being connected: ensureConnection
\* connects unless connected, then first is called
firstAwait(connected, first) == IF connected THEN first ELSE "connect"

\* CacheService.ensureConnection and connect: isConnected of the instance, which
\* was connected, once the call awaited at at is answered
ensureConnection(connected, at) ==
  IF at = "connect" THEN ClientCallSucceeds ELSE connected

\* the time to live the cache adapter stores with, in seconds
TimeToLive == 3600

\* an entry of Redis: its value, and whether it has a time to live
Entry(value, timed) == [value |-> value, timed |-> timed]

\* Redis with entry under key
Stored(key, entry) ==
  [k \in DOMAIN redis \cup {key} |-> IF k = key THEN entry ELSE redis[k]]

\* client.get
ClientGet(fullKey) ==
  IF fullKey \in DOMAIN redis THEN redis[fullKey].value ELSE Null

\* client.setEx: the entry lives ttl seconds
ClientSetEx(fullKey, ttl, value) == Stored(fullKey, Entry(value, TRUE))

\* client.set: the entry has no time to live, whatever it had
ClientSet(key, value) == Stored(key, Entry(value, FALSE))

\* client.expire: the entry, if there is one, lives ttl seconds
ClientExpire(key, ttl) ==
  IF key \in DOMAIN redis THEN Stored(key, Entry(redis[key].value, TRUE)) ELSE redis

\* the operation goes on to await at; store is what Redis then holds
Pending(at, store) ==
  [ended |-> FALSE, at |-> at, threw |-> FALSE, value |-> Null, store |-> store,
   keys |-> {}]

\* the operation returned value
Gave(value, store) ==
  [ended |-> TRUE, at |-> "none", threw |-> FALSE, value |-> value, store |-> store,
   keys |-> {}]

\* the operation threw
Failed ==
  [ended |-> TRUE, at |-> "none", threw |-> TRUE, value |-> Null, store |-> redis,
   keys |-> {}]

\* CacheService.lookup as the call it awaits at at is answered: the value, or Null
\* when absent or when the cache failed
lookup(key, at) ==
  IF ~ClientCallSucceeds THEN Gave(Null, redis)
  ELSE IF at = "connect" THEN Pending("get", redis)
  ELSE Gave(ClientGet(FullKey(key)), redis)

\* CacheService.update that stores nothing
updateSkips(key, value, at) ==
  IF ~ClientCallSucceeds THEN Failed
  ELSE IF at = "connect" THEN Pending("setEx", redis)
  ELSE IF at = "setEx" THEN Pending("verify", redis)
  ELSE Gave(Null, redis)

\* CacheService.update as the call it awaits at at is answered: setEx stores, the
\* get that follows verifies; a call that rejects makes it throw
update(key, value, at) ==
  IF ~ClientCallSucceeds THEN Failed
  ELSE IF at = "connect" THEN Pending("setEx", redis)
  ELSE IF at = "setEx"
    THEN Pending("verify", ClientSetEx(FullKey(key), TimeToLive, value))
  ELSE Gave(Null, redis)

(***************************************************************************)
(* getCacheService and LLMService's initialization.                        *)
(***************************************************************************)
\* how a call of getCacheService ended
Returned(ready, n) == [threw |-> FALSE, ready |-> ready, bounded |-> n <= maxAttempts]

Threw(n) == [threw |-> TRUE, ready |-> FALSE, bounded |-> n <= maxAttempts]

\* initializeCache past its await of getCacheService, which returned the instance
initializeCacheWith(connected) ==
  /\ cacheService' = IF connected THEN "instance" ELSE "null"
  /\ isInitialized' = TRUE

\* initializeCache where getCacheService threw
initializeCacheFailed ==
  /\ cacheService' = "null"
  /\ isInitialized' = TRUE

\* new LLMService(): initializeCache runs to the first await of getCacheService,
\* which creates the singleton and starts to poll
ConstructLLMService ==
  /\ initPc = "new"
  /\ IF ~cacheServiceInstance
       THEN /\ cacheServiceInstance' = TRUE
            /\ instancesCreated' = instancesCreated + 1
            /\ isConnected' = FALSE
            /\ initPc' = "polling"
            /\ UNCHANGED << handedOut, llmVars >>
       ELSE /\ handedOut' = handedOut \cup {Returned(isReady, 0)}
            /\ initializeCacheWith(statusConnected)
            /\ initPc' = IF statusConnected THEN "ok" ELSE "failed"
            /\ UNCHANGED << cacheServiceInstance, instancesCreated, isConnected >>
  /\ attempts' = 0
  /\ UNCHANGED << redisUp, redis, vectorVars, req, last, earlyCalls,
                  extVars >>

\* the timer of the polling loop fires: one more attempt, then the loop's test
PollTick ==
  /\ initPc = "polling"
  /\ LET n == attempts + 1
     IN  IF ~isReady /\ n < maxAttempts
           THEN /\ attempts' = n
                /\ UNCHANGED << initPc, handedOut, llmVars >>
           ELSE /\ attempts' = 0
                /\ IF ~isReady
                     THEN /\ handedOut' = handedOut \cup {Threw(n)}
                          /\ initializeCacheFailed
                          /\ initPc' = "failed"
                     ELSE /\ handedOut' = handedOut \cup {Returned(isReady, n)}
                          /\ initializeCacheWith(statusConnected)
                          /\ initPc' = IF statusConnected THEN "ok" ELSE "failed"
  /\ UNCHANGED << cacheVars, cacheServiceInstance, instancesCreated, vectorVars, req,
                  last, earlyCalls,
                  extVars >>

(***************************************************************************)
(* OllamaEmbeddings and VectorStoreService: the detection of the embedding *)
(* width, the collection of Qdrant, the searches, the documents.           *)
(*                                                                         *)
(* An initializeVectorStore and every public operation advance from one    *)
(* await to the next in one step.  The constructor's initializeVectorStore *)
(* and the one an operation starts in ensureInitialized may run side by    *)
(* side; each keeps its own embeddingDims.                                 *)
(***************************************************************************)
\* VectorStoreService.isReady
vectorIsReady == vectorIsInitialized /\ vectorStore

\* the widths an embedding model may have: the fallback width, and 1024
ModelWidths == {FallbackDimensions, 1024}

\* the documents a search asks for
SearchSizes == {1, DefaultMaxDocs}

\* "Vector store not initialized", the error of healthCheck
NotInitializedError == "Vector store not initialized"

\* the messages of the errors Qdrant and the index raise
IndexError == "index call failed"

\* what a search for k documents may find: the k best of an index that holds the
\* n best ranked documents
SearchResults(k) ==
  {SubSeq(Ranked, 1, IF n < k THEN n ELSE k) : n \in 0..Len(Ranked)}

\* OllamaEmbeddings.getEmbeddingDimensions: the width it returns and keeps.  known
\* is the width it found kept when it was called (0: null); with none kept, the
\* width is that of the test embedding, or 384 when the endpoint fails
getEmbeddingDimensions(known) ==
  IF known # 0 THEN known
  ELSE IF embedUp THEN modelWidth
  ELSE FallbackDimensions

\* the response to GET /collections/<name>: "ok", "notFound" (404), or "error",
\* any other status or a rejected fetch
CollectionStatus ==
  IF ~qdrantUp THEN "error" ELSE IF collection = 0 THEN "notFound" ELSE "ok"

\* OllamaEmbeddings.embedQuery, embedDocuments: the width of the vector of a text;
\* ok: getOllamaEmbedding returned the embedding of the model
EmbeddingWidth(ok) ==
  IF ok THEN modelWidth ELSE getEmbeddingDimensions(embeddingDimensions)

\* the index answers a query or takes documents whose vectors have the widths:
\* Qdrant is up, the collection is there and has that width
IndexAccepts(size, widths) ==
  /\ qdrantUp
  /\ size # 0
  /\ \A i \in 1..Len(widths) : widths[i] = size

\* ensureCollection that goes on past a status that is neither ok nor 404
ensureCollectionAnyStatus(expectedDimensions) ==
  IF CollectionStatus = "ok"
    THEN IF collection # 0 /\ collection # expectedDimensions
           THEN "threw"
           ELSE "ensure"
  ELSE IF CollectionStatus = "notFound" THEN "create"
  ELSE "ensure"

\* VectorStoreService.ensureCollection as its GET is answered: it throws, goes on
\* to create the collection, or goes on to vectorStore.ensureCollection()
ensureCollection(expectedDimensions) ==
  IF CollectionStatus = "ok"
    THEN IF collection # 0 /\ collection # expectedDimensions
           THEN "threw"
           ELSE "ensure"
  ELSE IF CollectionStatus = "notFound" THEN "create"
  ELSE "threw"

\* VectorStoreService.initializeVectorStore as the call it awaits is answered.  at
\* names that call: "running" getEmbeddingDimensions, "collection" the GET of the
\* collection, "create" the PUT that creates it, "ensure"
\* vectorStore.ensureCollection(); dims is its embeddingDims.  createOk: the PUT
\* was answered ok; ensured: vectorStore.ensureCollection() returned.  It gives
\* where the initialization is then ("done": it has ended) and what it leaves
initializeVectorStore(at, dims, createOk, ensured) ==
  LET embeddingDimsNow == IF at = "running" THEN getEmbeddingDimensions(0) ELSE dims
      goes == IF at = "running" THEN "collection"
              ELSE IF at = "collection" THEN ensureCollection(dims)
              ELSE IF at = "create" THEN (IF createOk THEN "ensure" ELSE "threw")
              ELSE IF ensured THEN "returned" ELSE "threw"
  IN  [at |-> IF goes \in {"returned", "threw"} THEN "done" ELSE goes,
       dims |-> embeddingDimsNow,
       threw |-> goes = "threw",
       vectorStore |-> vectorStore \/ at = "running",
       isInitialized |-> IF goes = "returned" THEN TRUE
                         ELSE IF goes = "threw" THEN FALSE
                         ELSE vectorIsInitialized,
       embeddingDimensions |-> IF at = "running" THEN embeddingDimsNow
                               ELSE embeddingDimensions,
       collection |-> IF at = "create" /\ createOk THEN dims ELSE collection]

\* the operations of the service and of its embeddings
SearchOperations == {"similaritySearch", "similaritySearchWithScore"}

EmbeddingOperations == {"embedQuery", "embedDocuments"}

VectorOperations ==
  SearchOperations \cup EmbeddingOperations
    \cup {"addDocuments", "deleteDocuments", "getDocumentCount", "healthCheck",
          "diagnoseDimensions"}

\* an operation is in service
VectorBusy == vop.op \in VectorOperations /\ ~vop.ended

\* the initializeVectorStore of an operation has not run
NotRun ==
  [ran |-> FALSE, ended |-> FALSE, status |-> "none", found |-> 0, expected |-> 0,
   createOk |-> FALSE, created |-> 0, ensureThrew |-> FALSE, isInitialized |-> FALSE]

\* no health of the vector store
NoHealth ==
  [initialized |-> FALSE, connected |-> FALSE, error |-> "", embeddingDimensions |-> 0]

\* no diagnosis of the dimensions
NoDiagnosis ==
  [modelDimensions |-> 0, collectionDimensions |-> 0, match |-> FALSE,
   suggestions |-> << >>]

\* the operation op is called: k documents are asked for, texts are to be embedded
VectorCall(op, k, texts) ==
  [op |-> op, at |-> "none", ended |-> FALSE, dims |-> 0, init |-> NotRun,
   ready |-> FALSE, k |-> k, texts |-> texts, widths |-> << >>, fallback |-> {},
   before |-> embeddingDimensions, after |-> 0, threw |-> FALSE,
   searched |-> FALSE, indexFailed |-> FALSE, result |-> << >>,
   health |-> NoHealth, count |-> 0, diagnosis |-> NoDiagnosis]

\* similaritySearch whose catch rethrows
similaritySearchUnguarded(ready, accepted, found) ==
  IF ~ready THEN [threw |-> TRUE, searched |-> FALSE, result |-> << >>]
  ELSE IF accepted THEN [threw |-> FALSE, searched |-> TRUE, result |-> found]
  ELSE [threw |-> TRUE, searched |-> TRUE, result |-> << >>]

\* VectorStoreService.similaritySearch as it ends.  ready: its ensureInitialized
\* returned; accepted: the index answered the query; found: what it ranked
similaritySearch(ready, accepted, found) ==
  IF ~ready THEN [threw |-> FALSE, searched |-> FALSE, result |-> << >>]
  ELSE IF accepted THEN [threw |-> FALSE, searched |-> TRUE, result |-> found]
  ELSE [threw |-> FALSE, searched |-> TRUE, result |-> << >>]

\* VectorStoreService.similaritySearchWithScore as it ends
similaritySearchWithScore(ready, accepted, found) ==
  IF ~ready THEN [threw |-> FALSE, searched |-> FALSE, result |-> << >>]
  ELSE IF accepted
    THEN [threw |-> FALSE, searched |-> TRUE,
          result |-> [i \in 1..Len(found) |-> << found[i], found[i].score >>]]
  ELSE [threw |-> FALSE, searched |-> TRUE, result |-> << >>]

\* VectorStoreService.addDocuments as it ends: ensureInitialized is outside its
\* try; accepted: the index took the vectors of the documents
addDocuments(ready, accepted) ==
  IF ~ready THEN [threw |-> TRUE, searched |-> FALSE, result |-> << >>]
  ELSE [threw |-> ~accepted, searched |-> TRUE, result |-> << >>]

\* VectorStoreService.deleteDocuments as it ends: ensureInitialized is outside its
\* try; accepted: vectorStore.delete returned
deleteDocuments(ready, accepted) ==
  IF ~ready THEN [threw |-> TRUE, searched |-> FALSE, result |-> << >>]
  ELSE [threw |-> ~accepted, searched |-> TRUE, result |-> << >>]

\* VectorStoreService.getDocumentCount as it ends: what it returns.  ready: its
\* ensureInitialized returned; status: the response to its GET of the collection;
\* points: the points_count of that response
getDocumentCount(ready, status, points) ==
  IF ~ready THEN -1
  ELSE IF status = "ok" THEN points
  ELSE -1

\* a suggestion of diagnoseDimensions: its text up to the widths it names
Suggestion(text, model, collected) ==
  [text |-> text, model |-> model, collection |-> collected]

\* VectorStoreService.diagnoseDimensions as it ends: what it returns.  modelDims
\* is what getEmbeddingDimensions returned; status the response to its GET of the
\* collection, "rejected" when the fetch rejected; size the width the response
\* gives (0: null)
diagnoseDimensions(modelDims, status, size) ==
  LET collectionDims == IF status = "ok" THEN size ELSE 0
      match == collectionDims = modelDims
  IN  IF status = "rejected"
        THEN [modelDimensions |-> 0, collectionDimensions |-> 0, match |-> FALSE,
              suggestions |-> << Suggestion("Error diagnosing", 0, 0) >>]
        ELSE [modelDimensions |-> modelDims, collectionDimensions |-> collectionDims,
              match |-> match,
              suggestions |->
                IF ~match /\ collectionDims # 0
                  THEN << Suggestion("Current", modelDims, collectionDims),
                          Suggestion("Option 1", modelDims, 0),
                          Suggestion("Option 2", 0, collectionDims),
                          Suggestion("Command to delete", 0, 0) >>
                  ELSE << >>]

\* VectorStoreService.healthCheck as it ends.  ready: isInitialized and
\* vectorStore when it was called; accepted: the index answered its search;
\* dimensions: what getEmbeddingDimensions returned
vectorHealthCheck(ready, accepted, dimensions) ==
  IF ~ready
    THEN [initialized |-> FALSE, connected |-> FALSE, error |-> NotInitializedError,
          embeddingDimensions |-> 0]
  ELSE IF accepted
    THEN [initialized |-> TRUE, connected |-> TRUE, error |-> "",
          embeddingDimensions |-> dimensions]
  ELSE [initialized |-> vectorIsInitialized, connected |-> FALSE,
        error |-> IndexError, embeddingDimensions |-> 0]

\* how the operation v ends
VectorOutcome(v, ready, accepted, found) ==
  IF v.op = "similaritySearch" THEN similaritySearch(ready, accepted, found)
  ELSE IF v.op = "similaritySearchWithScore"
    THEN similaritySearchWithScore(ready, accepted, found)
  ELSE IF v.op = "addDocuments" THEN addDocuments(ready, accepted)
  ELSE IF v.op = "deleteDocuments" THEN deleteDocuments(ready, accepted)
  ELSE [threw |-> FALSE, searched |-> ready /\ v.op = "healthCheck",
        result |-> << >>]

\* the operation v has ended; after is the width the embeddings keep then
VectorEnded(v, ready, accepted, found, after) ==
  LET ended == VectorOutcome(v, ready, accepted, found)
  IN  [v EXCEPT !.ended = TRUE, !.at = "none", !.ready = ready, !.after = after,
                !.threw = ended.threw, !.searched = ended.searched,
                !.result = ended.result,
                !.indexFailed = ended.searched /\ ~accepted,
                !.health = IF v.op = "healthCheck"
                             THEN vectorHealthCheck(ready, accepted, v.dims)
                             ELSE @]

\* the call the operation op awaits past its ensureInitialized: the embedding of
\* its texts, vectorStore.delete, or the GET of the collection
AfterEnsureInitialized(op) ==
  IF op = "deleteDocuments" THEN "delete"
  ELSE IF op = "getDocumentCount" THEN "count"
  ELSE "embed"

\* the operation v past its ensureInitialized: it goes on to its next await when
\* the service is ready, and ends when it is not; getDocumentCount then returns -1
PastEnsureInitialized(v, ready) ==
  IF ready THEN [v EXCEPT !.at = AfterEnsureInitialized(v.op), !.ready = TRUE]
  ELSE [VectorEnded(v, FALSE, FALSE, << >>, embeddingDimensions)
          EXCEPT !.count = IF v.op = "getDocumentCount"
                             THEN getDocumentCount(FALSE, CollectionStatus, 0)
                             ELSE @]

\* VectorStoreService.ensureInitialized as the operation v calls it: to the first
\* await of its initializeVectorStore, which is the GET of the collection when the
\* embeddings keep a width
vectorEnsureInitialized(v) ==
  IF ~vectorIsInitialized \/ ~vectorStore
    THEN [v EXCEPT !.at = IF embeddingDimensions # 0 THEN "collection" ELSE "running",
                   !.dims = embeddingDimensions,
                   !.init = [NotRun EXCEPT !.ran = TRUE]]
    ELSE PastEnsureInitialized(v, TRUE)

\* what the environment of the service and the other services keep
vectorRest ==
  << cacheVars, singletonVars, llmVars, req, last, earlyCalls, cacheOp, health, keyed,
     moreVars >>

EmbeddingsGoDown ==
  /\ embedUp
  /\ embedUp' = FALSE
  /\ UNCHANGED << vectorRest, vectorVars, qdrantUp, collection, modelWidth,
                  embeddingDimensions, vop >>

EmbeddingsComeUp ==
  /\ ~embedUp
  /\ embedUp' = TRUE
  /\ UNCHANGED << vectorRest, vectorVars, qdrantUp, collection, modelWidth,
                  embeddingDimensions, vop >>

QdrantGoesDown ==
  /\ qdrantUp
  /\ qdrantUp' = FALSE
  /\ UNCHANGED << vectorRest, vectorVars, embedUp, collection, modelWidth,
                  embeddingDimensions, vop >>

QdrantComesUp ==
  /\ ~qdrantUp
  /\ qdrantUp' = TRUE
  /\ UNCHANGED << vectorRest, vectorVars, embedUp, collection, modelWidth,
                  embeddingDimensions, vop >>

\* the initializeVectorStore calls that may be running: the one the constructor
\* started, and the one of the operation in service
Initializers == {"constructor", "operation"}

\* the call the initializeVectorStore of who awaits
InitializerAt(who) ==
  IF who = "constructor" THEN vectorInitPc
  ELSE IF VectorBusy THEN vop.at
  ELSE "none"

\* the operation v, whose initializeVectorStore was at v.at, after the answer that
\* took it to after: what the initialization met is kept, and when it has ended
\* ensureInitialized throws unless the service is ready
VectorInitialized(v, after, createOk) ==
  LET met == [v.init EXCEPT
                !.ended = after.at = "done",
                !.status = IF v.at = "collection" THEN CollectionStatus ELSE @,
                !.found = IF v.at = "collection" THEN collection ELSE @,
                !.expected = after.dims,
                !.createOk = IF v.at = "create" THEN createOk ELSE @,
                !.created = IF v.at = "create" /\ createOk THEN after.collection
                            ELSE @,
                !.ensureThrew = after.threw,
                !.isInitialized = after.at = "done" /\ after.isInitialized]
      w == [v EXCEPT !.at = after.at, !.dims = after.dims, !.init = met]
  IN  IF after.at = "done"
        THEN PastEnsureInitialized(w, after.isInitialized /\ after.vectorStore)
        ELSE w

\* the call the initializeVectorStore of who awaits is answered
VectorInitAnswered(who, createOk, ensured) ==
  LET dims == IF who = "constructor" THEN embeddingDims ELSE vop.dims
      after == initializeVectorStore(InitializerAt(who), dims, createOk, ensured)
  IN  /\ vectorStore' = after.vectorStore
      /\ vectorIsInitialized' = after.isInitialized
      /\ embeddingDimensions' = after.embeddingDimensions
      /\ collection' = after.collection
      /\ IF who = "constructor"
           THEN /\ vectorInitPc' = after.at
                /\ embeddingDims' = after.dims
                /\ UNCHANGED vop
           ELSE /\ vop' = VectorInitialized(vop, after, createOk)
                /\ UNCHANGED << vectorInitPc, embeddingDims >>
      /\ UNCHANGED << vectorRest, embedUp, qdrantUp, modelWidth >>

\* await this.embeddings.getEmbeddingDimensions() returns: the width is kept, the
\* QdrantVectorStore is made, ensureCollection asks for the collection
VectorInitDetects ==
  \E who \in Initializers :
    /\ InitializerAt(who) = "running"
    /\ VectorInitAnswered(who, FALSE, FALSE)

\* ensureCollection: the GET is answered.  A collection of the expected width is
\* kept, an absent one is to be created, anything else makes it throw
VectorInitChecks ==
  \E who \in Initializers :
    /\ InitializerAt(who) = "collection"
    /\ VectorInitAnswered(who, FALSE, FALSE)

\* ensureCollection: the PUT is answered, ok or not; Qdrant creates a collection
\* only where there is none
VectorInitCreates ==
  \E who \in Initializers, createOk \in BOOLEAN :
    /\ InitializerAt(who) = "create"
    /\ createOk => qdrantUp /\ collection = 0
    /\ VectorInitAnswered(who, createOk, FALSE)

\* initializeVectorStore ends: vectorStore.ensureCollection() returned
VectorInitSucceeds ==
  \E who \in Initializers :
    /\ InitializerAt(who) = "ensure"
    /\ qdrantUp
    /\ VectorInitAnswered(who, FALSE, TRUE)

\* initializeVectorStore ends: vectorStore.ensureCollection() threw
VectorInitFails ==
  \E who \in Initializers :
    /\ InitializerAt(who) = "ensure"
    /\ VectorInitAnswered(who, FALSE, FALSE)

\* an operation that begins with ensureInitialized is called: it runs to its first
\* await.  With a width kept, its initializeVectorStore makes the QdrantVectorStore
\* before that await
VectorBegins(v) ==
  /\ vop' = vectorEnsureInitialized(v)
  /\ vectorStore' = (vectorStore \/ embeddingDimensions # 0)
  /\ UNCHANGED << vectorRest, vectorInitPc, embeddingDims, vectorIsInitialized,
                  embedUp, qdrantUp, collection, modelWidth, embeddingDimensions >>

\* similaritySearch is called, by a caller of the service or by
\* LLMService.searchDocuments
VectorSearch ==
  /\ ~VectorBusy
  /\ \E k \in SearchSizes : VectorBegins(VectorCall("similaritySearch", k, 1))

VectorSearchWithScore ==
  /\ ~VectorBusy
  /\ \E k \in SearchSizes :
       VectorBegins(VectorCall("similaritySearchWithScore", k, 1))

\* the number of texts embedDocuments is called with
MaxTexts == 2

\* addDocuments is called, by a caller of the service or by
\* LLMService.addDocuments, which lets its exception out
VectorAddDocuments ==
  /\ ~VectorBusy
  /\ \E n \in 1..MaxTexts : VectorBegins(VectorCall("addDocuments", 0, n))

VectorDeleteDocuments ==
  /\ ~VectorBusy
  /\ VectorBegins(VectorCall("deleteDocuments", 0, 0))

VectorGetDocumentCount ==
  /\ ~VectorBusy
  /\ VectorBegins(VectorCall("getDocumentCount", 0, 0))

\* VectorStoreService.diagnoseDimensions as v calls it, to its first await: the
\* detection of the width when the embeddings keep none, else the GET of the
\* collection
diagnoseDimensionsCalled(v) ==
  IF embeddingDimensions # 0
    THEN [v EXCEPT !.at = "diagnose",
                   !.dims = getEmbeddingDimensions(embeddingDimensions)]
    ELSE [v EXCEPT !.at = "detect"]

VectorDiagnoseDimensions ==
  /\ ~VectorBusy
  /\ vop' = diagnoseDimensionsCalled(VectorCall("diagnoseDimensions", 0, 0))
  /\ UNCHANGED << vectorRest, vectorVars, embedUp, qdrantUp, collection, modelWidth,
                  embeddingDimensions >>

\* VectorStoreService.healthCheck as v calls it: it returns at once unless the
\* service is ready, and goes on to the search of its probe when it is
vectorHealthCheckCalled(v) ==
  IF ~vectorIsInitialized \/ ~vectorStore
    THEN VectorEnded(v, FALSE, FALSE, << >>, embeddingDimensions)
    ELSE [v EXCEPT !.at = "embed", !.ready = TRUE,
                   !.dims = getEmbeddingDimensions(embeddingDimensions)]

VectorHealthCheck ==
  /\ ~VectorBusy
  /\ vop' = vectorHealthCheckCalled(VectorCall("healthCheck", 1, 1))
  /\ UNCHANGED << vectorRest, vectorVars, embedUp, qdrantUp, collection, modelWidth,
                  embeddingDimensions >>

\* OllamaEmbeddings.embedQuery and embedDocuments are called through the
\* QdrantVectorStore, which is there once a width has been detected
EmbedQuery ==
  /\ ~VectorBusy
  /\ vectorStore
  /\ vop' = [VectorCall("embedQuery", 0, 1) EXCEPT !.at = "embed"]
  /\ UNCHANGED << vectorRest, vectorVars, embedUp, qdrantUp, collection, modelWidth,
                  embeddingDimensions >>

EmbedDocuments ==
  /\ ~VectorBusy
  /\ vectorStore
  /\ \E n \in 1..MaxTexts :
       vop' = [VectorCall("embedDocuments", 0, n) EXCEPT !.at = "embed"]
  /\ UNCHANGED << vectorRest, vectorVars, embedUp, qdrantUp, collection, modelWidth,
                  embeddingDimensions >>

\* getOllamaEmbedding of the next text of the operation is answered, with the
\* embedding of the model or not; a text that is not embedded gets the vector of
\* textToEmbedding, of the width the embeddings keep.  Past the last text the
\* embedding operations end and the others go on to the index
VectorEmbeds ==
  /\ VectorBusy
  /\ vop.at = "embed"
  /\ \E ok \in BOOLEAN :
       /\ ok => embedUp
       /\ LET n == Len(vop.widths) + 1
              v == [vop EXCEPT !.widths = Append(@, EmbeddingWidth(ok)),
                               !.fallback = IF ok THEN @ ELSE @ \cup {n}]
          IN  vop' = IF n < vop.texts THEN v
                     ELSE IF vop.op \in EmbeddingOperations
                       THEN VectorEnded(v, TRUE, TRUE, << >>,
                                        getEmbeddingDimensions(embeddingDimensions))
                     ELSE [v EXCEPT !.at = "index"]
  /\ embeddingDimensions' = getEmbeddingDimensions(embeddingDimensions)
  /\ UNCHANGED << vectorRest, vectorVars, embedUp, qdrantUp, collection, modelWidth >>

\* the index answers the query, or the upsert, of the operation, or fails to
VectorIndexAnswers ==
  /\ VectorBusy
  /\ vop.at = "index"
  /\ \E found \in SearchResults(vop.k) :
       LET accepted == IndexAccepts(collection, vop.widths)
       IN  /\ found = << >> \/ (accepted /\ vop.op \in SearchOperations)
           /\ vop' = VectorEnded(vop, TRUE, accepted, found, embeddingDimensions)
  /\ UNCHANGED << vectorRest, vectorVars, embedUp, qdrantUp, collection, modelWidth,
                  embeddingDimensions >>

\* the points a collection may hold
PointCounts == 0..Len(Ranked)

\* deleteDocuments: vectorStore.delete is answered; it returns only where Qdrant
\* is up and has the collection
VectorDeleteAnswers ==
  /\ VectorBusy
  /\ vop.at = "delete"
  /\ \E deleted \in BOOLEAN :
       /\ deleted => qdrantUp /\ collection # 0
       /\ vop' = VectorEnded(vop, TRUE, deleted, << >>, embeddingDimensions)
  /\ UNCHANGED << vectorRest, vectorVars, embedUp, qdrantUp, collection, modelWidth,
                  embeddingDimensions >>

\* getDocumentCount: the GET of the collection is answered, with its points_count
\* where the response is ok
VectorCountAnswers ==
  /\ VectorBusy
  /\ vop.at = "count"
  /\ \E points \in PointCounts :
       /\ points # 0 => CollectionStatus = "ok"
       /\ vop' = [VectorEnded(vop, TRUE, CollectionStatus = "ok", << >>,
                              embeddingDimensions)
                   EXCEPT !.count = getDocumentCount(TRUE, CollectionStatus, points)]
  /\ UNCHANGED << vectorRest, vectorVars, embedUp, qdrantUp, collection, modelWidth,
                  embeddingDimensions >>

\* diagnoseDimensions: await this.embeddings.getEmbeddingDimensions() returns, and
\* the embeddings keep the width; the GET of the collection follows
VectorDiagnoseDetects ==
  /\ VectorBusy
  /\ vop.at = "detect"
  /\ vop' = [vop EXCEPT !.at = "diagnose", !.dims = getEmbeddingDimensions(0)]
  /\ embeddingDimensions' = getEmbeddingDimensions(0)
  /\ UNCHANGED << vectorRest, vectorVars, embedUp, qdrantUp, collection, modelWidth >>

\* diagnoseDimensions: the GET of the collection is answered, or the fetch
\* rejects, and diagnoseDimensions returns
VectorDiagnoseAnswers ==
  /\ VectorBusy
  /\ vop.at = "diagnose"
  /\ \E status \in {CollectionStatus, "rejected"} :
       /\ status = "rejected" => ~qdrantUp
       /\ vop' = [vop EXCEPT
                     !.ended = TRUE, !.at = "none", !.after = embeddingDimensions,
                     !.diagnosis = diagnoseDimensions(vop.dims, status, collection)]
  /\ UNCHANGED << vectorRest, vectorVars, embedUp, qdrantUp, collection, modelWidth,
                  embeddingDimensions >>

\* LLMService, CacheService and their requests as Init leaves them, Redis up
ServiceIdle ==
  /\ redisUp = TRUE
  /\ redis = << >>
  /\ cacheServiceInstance = FALSE
  /\ isConnected = FALSE
  /\ instancesCreated = 0
  /\ handedOut = {}
  /\ initPc = "new"
  /\ attempts = 0
  /\ cacheService = "null"
  /\ isInitialized = FALSE
  /\ req = NoRequest
  /\ last = NothingLeft
  /\ earlyCalls = 0

\* new VectorStoreService(): initializeVectorStore awaits the detection of the
\* embedding width; the collection is absent or has one of the widths
InitVector ==
  /\ ServiceIdle
  /\ vectorInitPc = "running"
  /\ embeddingDims = 0
  /\ vectorStore = FALSE
  /\ vectorIsInitialized = FALSE
  /\ embedUp \in BOOLEAN
  /\ qdrantUp \in BOOLEAN
  /\ collection \in {0} \cup ModelWidths
  /\ modelWidth \in ModelWidths
  /\ embeddingDimensions = 0
  /\ cacheOp = NoOperation
  /\ vop = NoOperation
  /\ health = NoOperation
  /\ keyed = NoOperation
  /\ MoreIdle

\* The steps of every initializeVectorStore and of the operation in service.
VectorAnswers ==
  \/ VectorInitDetects
  \/ VectorInitChecks
  \/ VectorInitCreates
  \/ VectorInitSucceeds
  \/ VectorInitFails
  \/ VectorEmbeds
  \/ VectorIndexAnswers

\* The vector store service as its callers use it.
NextVector ==
  \/ EmbeddingsGoDown
  \/ EmbeddingsComeUp
  \/ QdrantGoesDown
  \/ QdrantComesUp
  \/ VectorAnswers
  \/ VectorSearch
  \/ VectorSearchWithScore
  \/ VectorAddDocuments
  \/ VectorDeleteDocuments
  \/ VectorGetDocumentCount
  \/ VectorHealthCheck
  \/ VectorDiagnoseDimensions
  \/ VectorDeleteAnswers
  \/ VectorCountAnswers
  \/ VectorDiagnoseDetects
  \/ VectorDiagnoseAnswers

SpecVector == InitVector /\ [][NextVector]_vars

\* The embeddings and the addition of documents.
NextEmbed ==
  \/ EmbeddingsGoDown
  \/ EmbeddingsComeUp
  \/ QdrantGoesDown
  \/ QdrantComesUp
  \/ VectorAnswers
  \/ EmbedQuery
  \/ EmbedDocuments
  \/ VectorAddDocuments

SpecEmbed == InitVector /\ [][NextEmbed]_vars

(***************************************************************************)
(* LLMService.generate, generateWithContext and generateStream.            *)
(*                                                                         *)
(* A request advances from one await to the next in one step, and inside a *)
(* call of the cache service from one answer of the client to the next     *)
(* (at).  pc names the call it awaits: lookup, invoke, update are those of *)
(* generate; ragLookup, search, ragInvoke, ragUpdate, noDocsUpdate are     *)
(* those of generateWithContext; streamLookup, streamInvoke, streamUpdate  *)
(* and streamTimer, the timer awaited after every token, are those of      *)
(* generateStream.  gCaller names the place generate was called from:      *)
(* "top" (the caller of the service), "notReady", "noDocs" and "catch"     *)
(* (the three calls in generateWithContext).                               *)
(***************************************************************************)
\* the request returns value to its caller
Returns(r, value) == [r EXCEPT !.pc = "done", !.outcome = "returned", !.result = value]

\* the request rejects
Raises(r) == [r EXCEPT !.pc = "done", !.outcome = "raised"]

\* the request runs on to its next await: where that is a call of the cache
\* service, whose isConnected is connected, to the first await of that call
Awaiting(r, connected) ==
  [r EXCEPT !.at =
     IF r.pc \in {"lookup", "ragLookup", "streamLookup"}
       THEN firstAwait(connected, "get")
     ELSE IF r.pc \in {"update", "ragUpdate", "noDocsUpdate", "streamUpdate"}
       THEN firstAwait(connected, "setEx")
     ELSE "none"]

\* the lookup of key by the request r, as the call it awaits is answered: whether
\* the lookup has ended, the request then, the value it returned, and isConnected
LookupStep(r, key) ==
  LET result == lookup(key, r.at)
      event == Event("lookup", key, <<>>, result.value, ClientCallSucceeds)
  IN  [ended |-> result.ended,
       r |-> IF result.ended THEN Logged(r, event) ELSE [r EXCEPT !.at = result.at],
       value |-> result.value,
       threw |-> FALSE,
       connected |-> ensureConnection(isConnected, r.at)]

\* the update of key with r.responseText by the request r, as the call it awaits
\* is answered: whether the update has ended, the request then, whether it threw,
\* and isConnected
UpdateStep(r, key) ==
  LET result == update(key, r.responseText, r.at)
      event == [Event("update", key, <<>>, r.responseText, ~result.threw)
                  EXCEPT !.stored = r.at = "verify"]
  IN  [ended |-> result.ended,
       r |-> IF result.ended THEN Logged(r, event) ELSE [r EXCEPT !.at = result.at],
       value |-> Null,
       threw |-> result.threw,
       connected |-> ensureConnection(isConnected, r.at)]

\* the request past a step of a lookup or of an update: it still awaits the cache
\* service, or the call has ended and it runs on, as after, to its next await
Stepped(step, after) ==
  IF step.ended THEN Awaiting(after, step.connected) ELSE step.r

\* generate(p) up to its first await; cs is this.cacheService
EnterGenerate(r, p, caller, cs) ==
  [r EXCEPT !.gPrompt = p, !.cacheKey = createCacheKey(p), !.gCaller = caller,
            !.pc = IF cs = "instance" THEN "lookup" ELSE "invoke"]

\* ragCatch as it would be if generateWithContext let the exception out
ragCatchRethrows(r, cs) == Raises(r)

\* the catch block of generateWithContext
ragCatch(r, cs) == EnterGenerate(r, r.prompt, "catch", cs)

\* generate returned value: its caller goes on
GenerateReturned(r, value, cs) ==
  IF r.gCaller = "noDocs"
    THEN IF cs = "instance"
           THEN [r EXCEPT !.pc = "noDocsUpdate", !.responseText = value]
           ELSE Returns(r, value)
    ELSE Returns(r, value)

\* generate threw: its caller goes on
GenerateThrew(r, cs) ==
  IF r.gCaller \in {"notReady", "noDocs"} THEN ragCatch(r, cs) ELSE Raises(r)

\* generateCatch as it would be if generate let the exception out
generateCatchRethrows(r, message, cs) == GenerateThrew(r, cs)

\* the catch block of generate
generateCatch(r, message, cs) == GenerateReturned(r, ErrorPrefix \o message, cs)

\* generate past a lookup that returned cached
generateAfterLookup(r, cached, cs) ==
  IF Truthy(cached) THEN GenerateReturned(r, cached, cs) ELSE [r EXCEPT !.pc = "invoke"]

\* generate past an invoke that resolved to response
generateAfterInvoke(r, response, cs) ==
  LET responseText == extractResponseText(response)
  IN  IF cs = "instance"
        THEN [r EXCEPT !.pc = "update", !.responseText = responseText]
        ELSE GenerateReturned(r, responseText, cs)

\* generateAfterUpdate as it would be without the try around the update: the
\* exception of the cache ("C") reaches the catch block of generate
generateAfterUpdateUnguarded(r, threw, cs) ==
  IF threw THEN generateCatch(r, <<67>>, cs) ELSE GenerateReturned(r, r.responseText, cs)

\* generate past its update, which threw or not: the failure is logged only
generateAfterUpdate(r, threw, cs) == GenerateReturned(r, r.responseText, cs)

\* ragAfterMiss as it would be if it went on to search whatever isReady() returns
ragAfterMissSearches(r, cs) ==
  [Logged(r, Event("isReady", <<>>, <<>>, <<>>, vectorIsReady)) EXCEPT !.pc = "search"]

\* generateWithContext past the cache check, up to its next await
ragAfterMiss(r, cs) ==
  LET checked == Logged(r, Event("isReady", <<>>, <<>>, <<>>, vectorIsReady))
  IN  IF ~vectorIsReady THEN EnterGenerate(checked, r.prompt, "notReady", cs)
      ELSE [checked EXCEPT !.pc = "search"]

\* generateWithContext past a lookup that returned cached
ragAfterLookup(r, cached, cs) ==
  IF Truthy(cached) THEN Returns(r, cached) ELSE ragAfterMiss(r, cs)

\* generateWithContext past a search that found the documents found
ragAfterSearch(r, found, cs) ==
  LET relevantDocs ==
        relevantDocsOf(found, r.options.minScore, r.options.includeScores)
  IN  IF Len(relevantDocs) = 0
        THEN EnterGenerate(r, noContextPrompt(r.prompt), "noDocs", cs)
        ELSE [r EXCEPT !.pc = "ragInvoke", !.relevantDocs = relevantDocs]

\* generateWithContext past an invoke that resolved to response
ragAfterInvoke(r, response, cs) ==
  LET responseText == extractResponseText(response)
  IN  IF cs = "instance"
        THEN [r EXCEPT !.pc = "ragUpdate", !.responseText = responseText]
        ELSE Returns(r, responseText)

\* generateWithContext past an update of the RAG key, which threw or not
ragAfterUpdate(r, threw, cs) ==
  IF threw THEN ragCatch(r, cs) ELSE Returns(r, r.responseText)

\* String.prototype.split(' ')
RECURSIVE split(_)
split(text) ==
  IF \A i \in 1..Len(text) : text[i] # 32 THEN << text >>
  ELSE LET first == CHOOSE i \in 1..Len(text) :
                      text[i] = 32 /\ \A j \in 1..(i - 1) : text[j] # 32
       IN  << SubSeq(text, 1, first - 1) >>
             \o split(SubSeq(text, first + 1, Len(text)))

\* generateStream in its loop over tokens, which has tokens left: it calls
\* onToken(token + ' ') with the first of them and awaits the timer of 50 ms
Streamed(r, tokens) ==
  [Logged(r, Event("onToken", <<>>, <<>>, Head(tokens) \o <<32>>, TRUE))
     EXCEPT !.pc = "streamTimer", !.tokens = Tail(tokens)]

\* generateStream in its loop over tokens as the loop begins and as a timer has
\* fired: the next token is handed over, and past the last one text is returned
streamLoop(r, tokens, text) ==
  IF tokens = <<>> THEN Returns(r, text)
  ELSE [Streamed(r, tokens) EXCEPT !.responseText = text]

\* generateStream has text to return: it streams it to onToken, when it was given
\* one, token by token, and returns it
streamReturns(r, text) ==
  IF r.onToken THEN streamLoop(r, split(text), text) ELSE Returns(r, text)

\* generateStream up to its first await
EnterGenerateStream(r, cs) ==
  [r EXCEPT !.cacheKey = createCacheKey(r.prompt),
            !.pc = IF cs = "instance" THEN "streamLookup" ELSE "streamInvoke"]

\* generateStream past a lookup that returned cached
streamAfterLookup(r, cached) ==
  IF Truthy(cached) THEN streamReturns(r, cached) ELSE [r EXCEPT !.pc = "streamInvoke"]

\* generateStream past an invoke that resolved to response
streamAfterInvoke(r, response, cs) ==
  LET fullResponse == extractResponseText(response)
  IN  IF cs = "instance"
        THEN [r EXCEPT !.pc = "streamUpdate", !.responseText = fullResponse]
        ELSE streamReturns(r, fullResponse)

\* the catch block of generateStream logs the error and throws it again
streamCatch(r) == Raises(r)

\* generateStream past its update, which threw or not
streamAfterUpdate(r, threw) ==
  IF threw THEN streamCatch(r) ELSE streamReturns(r, r.responseText)

\* LLMService.ensureInitialized.  While the constructor's initializeCache polls,
\* this second initializeCache gets the singleton from getCacheService at once
ensureInitialized ==
  IF isInitialized
    THEN UNCHANGED << handedOut, llmVars >>
    ELSE /\ handedOut' = handedOut \cup {Returned(isReady, 0)}
         /\ initializeCacheWith(statusConnected)

\* what a served request leaves for the next one: whether it was a
\* generateWithContext that generated a text, from the augmented prompt or through
\* generate with the no-context prompt, stored it under its RAG key and returned it
Left(r) ==
  LET n == Len(r.log)
      stored ==
        /\ r.op = "generateWithContext" /\ r.pc = "done" /\ r.outcome = "returned"
        /\ n >= 2
        /\ r.log[n].type = "update" /\ r.log[n].ok /\ r.log[n].key = r.ragKey
        /\ r.log[n].text = r.result
        /\ \A i \in 1..n : r.log[i].type \in {"lookup", "update"} => r.log[i].ok
        /\ \E i \in 1..n : r.log[i].type = "invoke" /\ r.log[i].ok
      kind == IF ~stored THEN "none"
              ELSE IF r.gCaller = "noDocs" THEN "noContext" ELSE "augmented"
  IN  IF kind = "none" THEN NothingLeft
      ELSE [kind |-> kind, prompt |-> r.prompt, maxDocs |-> r.options.maxDocs,
            minScore |-> r.options.minScore,
            includeScores |-> r.options.includeScores, text |-> r.result]

\* generate(p) is called by the caller of the service
BeginGenerate ==
  /\ req.pc \in {"idle", "done"}
  /\ \E p \in Prompts :
       LET r == [NoRequest EXCEPT !.op = "generate", !.prompt = p]
       IN  /\ ensureInitialized
           /\ req' = Awaiting(EnterGenerate(r, p, "top", cacheService'), isConnected)
  /\ last' = Left(req)
  /\ UNCHANGED << cacheVars, cacheServiceInstance, instancesCreated, initPc, attempts,
                  vectorVars,
                  extVars >>

\* generateWithContext(p, o) is called by the caller of the service
BeginGenerateWithContext ==
  /\ req.pc \in {"idle", "done"}
  /\ \E p \in Prompts, o \in OptionSets :
       LET r == [NoRequest EXCEPT
                   !.op = "generateWithContext", !.prompt = p, !.options = o,
                   !.ragKey = contextCacheKey(p, o.maxDocs, o.minScore)]
       IN  /\ ensureInitialized
           /\ req' = Awaiting(IF cacheService' = "instance"
                                 THEN [r EXCEPT !.pc = "ragLookup"]
                                 ELSE ragAfterMiss(r, cacheService'),
                               isConnected)
  /\ last' = Left(req)
  /\ UNCHANGED << cacheVars, cacheServiceInstance, instancesCreated, initPc, attempts,
                  vectorVars,
                  extVars >>

\* generateStream(p, onToken) is called by the caller of the service, with a
\* callback or without
BeginGenerateStream ==
  /\ req.pc \in {"idle", "done"}
  /\ \E p \in Prompts, onToken \in BOOLEAN :
       LET r == [NoRequest EXCEPT
                   !.op = "generateStream", !.prompt = p, !.onToken = onToken]
       IN  /\ ensureInitialized
           /\ req' = Awaiting(EnterGenerateStream(r, cacheService'), isConnected)
  /\ last' = Left(req)
  /\ UNCHANGED << cacheVars, cacheServiceInstance, instancesCreated, initPc, attempts,
                  vectorVars, extVars >>

\* the constructor's initializeCache has ended
InitializationEnded == initPc \in {"ok", "failed"}

\* a request arrives once the constructor's initializeCache has ended
StartGenerate ==
  /\ InitializationEnded
  /\ BeginGenerate
  /\ UNCHANGED earlyCalls

StartGenerateWithContext ==
  /\ InitializationEnded
  /\ BeginGenerateWithContext
  /\ UNCHANGED earlyCalls

StartGenerateStream ==
  /\ InitializationEnded
  /\ BeginGenerateStream
  /\ UNCHANGED earlyCalls

\* a request arrives while the constructor's initializeCache polls
StartGenerateEarly ==
  /\ initPc = "polling"
  /\ earlyCalls < MaxEarlyCalls
  /\ BeginGenerate
  /\ earlyCalls' = earlyCalls + 1

StartGenerateWithContextEarly ==
  /\ initPc = "polling"
  /\ earlyCalls < MaxEarlyCalls
  /\ BeginGenerateWithContext
  /\ earlyCalls' = earlyCalls + 1

\* generate: await this.cacheService.lookup(cacheKey), from one answer of the
\* client to the next
GenerateLookup ==
  /\ req.pc = "lookup"
  /\ LET step == LookupStep(req, req.cacheKey)
     IN  req' = Stepped(step, generateAfterLookup(step.r, step.value, cacheService))
  /\ isConnected' = ensureConnection(isConnected, req.at)
  /\ UNCHANGED << redisUp, redis, singletonVars, llmVars, vectorVars, last, earlyCalls,
                  extVars >>

\* generate: await this.ollama.invoke(prompt) resolves
GenerateInvoke ==
  /\ req.pc = "invoke"
  /\ \E response \in Responses :
       LET event ==
             Event("invoke", <<>>, req.gPrompt, extractResponseText(response), TRUE)
       IN  req' = Awaiting(generateAfterInvoke(Logged(req, event), response, cacheService),
                           isConnected)
  /\ UNCHANGED << cacheVars, singletonVars, llmVars, vectorVars, last, earlyCalls,
                  extVars >>

\* generate: await this.ollama.invoke(prompt) rejects
GenerateInvokeFails ==
  /\ req.pc = "invoke"
  /\ \E message \in ErrorMessages :
       LET event == Event("invoke", <<>>, req.gPrompt, message, FALSE)
       IN  req' = Awaiting(generateCatch(Logged(req, event), message, cacheService),
                           isConnected)
  /\ UNCHANGED << cacheVars, singletonVars, llmVars, vectorVars, last, earlyCalls,
                  extVars >>

\* generate: await this.cacheService.update(cacheKey, responseText), from one
\* answer of the client to the next
GenerateUpdate ==
  /\ req.pc = "update"
  /\ LET step == UpdateStep(req, req.cacheKey)
     IN  req' = Stepped(step, generateAfterUpdate(step.r, step.threw, cacheService))
  /\ redis' = update(req.cacheKey, req.responseText, req.at).store
  /\ isConnected' = ensureConnection(isConnected, req.at)
  /\ UNCHANGED << redisUp, singletonVars, llmVars, vectorVars, last, earlyCalls,
                  extVars >>

\* generateWithContext: await this.cacheService.lookup(contextCacheKey), from one
\* answer of the client to the next
RagLookup ==
  /\ req.pc = "ragLookup"
  /\ LET step == LookupStep(req, req.ragKey)
     IN  req' = Stepped(step, ragAfterLookup(step.r, step.value, cacheService))
  /\ isConnected' = ensureConnection(isConnected, req.at)
  /\ UNCHANGED << redisUp, redis, singletonVars, llmVars, vectorVars, last, earlyCalls,
                  extVars >>

\* generateWithContext: the search of the vector store resolves
RagSearch ==
  /\ req.pc = "search"
  /\ \E found \in SearchResults(req.options.maxDocs) :
       LET event == Event("search", <<>>, req.prompt, <<>>, TRUE)
       IN  req' = Awaiting(ragAfterSearch(Logged(req, event), found, cacheService),
                           isConnected)
  /\ UNCHANGED << cacheVars, singletonVars, llmVars, vectorVars, last, earlyCalls,
                  extVars >>

\* generateWithContext: the search fails inside the vector store service, which
\* returns no documents
RagSearchFails ==
  /\ req.pc = "search"
  /\ LET event == Event("search", <<>>, req.prompt, <<>>, FALSE)
     IN  req' = Awaiting(ragAfterSearch(Logged(req, event), <<>>, cacheService),
                         isConnected)
  /\ UNCHANGED << cacheVars, singletonVars, llmVars, vectorVars, last, earlyCalls,
                  extVars >>

\* generateWithContext: await this.ollama.invoke(augmentedPrompt) resolves
RagInvoke ==
  /\ req.pc = "ragInvoke"
  /\ \E response \in Responses :
       LET event ==
             Event("invoke", <<>>, augmentedPrompt(req.relevantDocs, req.prompt),
                   extractResponseText(response), TRUE)
       IN  req' = Awaiting(ragAfterInvoke(Logged(req, event), response, cacheService),
                           isConnected)
  /\ UNCHANGED << cacheVars, singletonVars, llmVars, vectorVars, last, earlyCalls,
                  extVars >>

\* generateWithContext: await this.ollama.invoke(augmentedPrompt) rejects
RagInvokeFails ==
  /\ req.pc = "ragInvoke"
  /\ \E message \in ErrorMessages :
       LET event ==
             Event("invoke", <<>>, augmentedPrompt(req.relevantDocs, req.prompt),
                   message, FALSE)
       IN  req' = Awaiting(ragCatch(Logged(req, event), cacheService),
                           isConnected)
  /\ UNCHANGED << cacheVars, singletonVars, llmVars, vectorVars, last, earlyCalls,
                  extVars >>

\* generateWithContext: await this.cacheService.update(contextCacheKey, ...), of
\* the augmented response (ragUpdate) or of the no-context response (noDocsUpdate),
\* from one answer of the client to the next
RagUpdate ==
  /\ req.pc \in {"ragUpdate", "noDocsUpdate"}
  /\ LET step == UpdateStep(req, req.ragKey)
     IN  req' = Stepped(step, ragAfterUpdate(step.r, step.threw, cacheService))
  /\ redis' = update(req.ragKey, req.responseText, req.at).store
  /\ isConnected' = ensureConnection(isConnected, req.at)
  /\ UNCHANGED << redisUp, singletonVars, llmVars, vectorVars, last, earlyCalls,
                  extVars >>

\* generateStream: await this.cacheService.lookup(cacheKey), from one answer of
\* the client to the next
StreamLookup ==
  /\ req.pc = "streamLookup"
  /\ LET step == LookupStep(req, req.cacheKey)
     IN  req' = Stepped(step, streamAfterLookup(step.r, step.value))
  /\ isConnected' = ensureConnection(isConnected, req.at)
  /\ UNCHANGED << redisUp, redis, singletonVars, llmVars, vectorVars, last, earlyCalls,
                  extVars >>

\* generateStream: await this.ollama.invoke(prompt) resolves
StreamInvoke ==
  /\ req.pc = "streamInvoke"
  /\ \E response \in StreamResponses :
       LET event ==
             Event("invoke", <<>>, req.prompt, extractResponseText(response), TRUE)
           invoked == streamAfterInvoke(Logged(req, event), response, cacheService)
       IN  req' = Awaiting(invoked, isConnected)
  /\ UNCHANGED << cacheVars, singletonVars, llmVars, vectorVars, last, earlyCalls,
                  extVars >>

\* generateStream: await this.ollama.invoke(prompt) rejects
StreamInvokeFails ==
  /\ req.pc = "streamInvoke"
  /\ \E message \in ErrorMessages :
       LET event == Event("invoke", <<>>, req.prompt, message, FALSE)
       IN  req' = streamCatch(Logged(req, event))
  /\ UNCHANGED << cacheVars, singletonVars, llmVars, vectorVars, last, earlyCalls,
                  extVars >>

\* generateStream: await this.cacheService.update(cacheKey, fullResponse), from
\* one answer of the client to the next
StreamUpdate ==
  /\ req.pc = "streamUpdate"
  /\ LET step == UpdateStep(req, req.cacheKey)
     IN  req' = Stepped(step, streamAfterUpdate(step.r, step.threw))
  /\ redis' = update(req.cacheKey, req.responseText, req.at).store
  /\ isConnected' = ensureConnection(isConnected, req.at)
  /\ UNCHANGED << redisUp, singletonVars, llmVars, vectorVars, last, earlyCalls,
                  extVars >>

\* generateStream: the timer of 50 ms it awaits after a token fires
StreamTimer ==
  /\ req.pc = "streamTimer"
  /\ req' = streamLoop(req, req.tokens, req.responseText)
  /\ UNCHANGED << cacheVars, singletonVars, llmVars, vectorVars, last, earlyCalls,
                  extVars >>

\* the Redis server, the client's events and the two initializations
Background ==
  \/ RedisGoesDown
  \/ RedisComesUp
  \/ ClientConnects
  \/ ClientError
  \/ ConstructLLMService
  \/ PollTick
  \/ VectorInitDetects
  \/ VectorInitChecks
  \/ VectorInitCreates
  \/ VectorInitSucceeds
  \/ VectorInitFails

\* a request in service goes from one await to the next
Step ==
  \/ GenerateLookup
  \/ GenerateInvoke
  \/ GenerateInvokeFails
  \/ GenerateUpdate
  \/ RagLookup
  \/ RagSearch
  \/ RagSearchFails
  \/ RagInvoke
  \/ RagInvokeFails
  \/ RagUpdate

\* a generateStream in service goes from one await to the next
StreamStep ==
  \/ StreamLookup
  \/ StreamInvoke
  \/ StreamInvokeFails
  \/ StreamUpdate
  \/ StreamTimer

\* The service as its callers use it once the cache initialization the constructor
\* started has ended: any number of requests, one after the other, within the time
\* to live of the entries they store.
Next ==
  \/ Background
  \/ StartGenerate
  \/ StartGenerateWithContext
  \/ StartGenerateStream
  \/ Step
  \/ StreamStep

Spec == Init /\ [][Next]_vars

\* The service with requests that arrive while the cache initialization the
\* constructor started still polls.
NextInit ==
  \/ Background
  \/ StartGenerateEarly
  \/ StartGenerateWithContextEarly
  \/ Step

SpecInit == Init /\ [][NextInit]_vars

(***************************************************************************)
(* The direct operations of CacheService, on the singleton.                *)
(***************************************************************************)
\* 'healthcheck', the key of the health route
HealthKey == << 104, 101, 97, 108, 116, 104, 99, 104, 101, 99, 107 >>

\* 'ok', the value the health route stores
HealthValue == << 111, 107 >>

\* "cache:*", the default pattern of CacheService.flushCache
CachePattern == << 99, 97, 99, 104, 101, 58, 42 >>

\* "llm:*", the default pattern of LLMService.clearCache
LlmPattern == << 108, 108, 109, 58, 42 >>

\* '*'
Star == << 42 >>

\* "default", the llmKey of lookupPrompt and updatePrompt where none is given
DefaultLlmKey == << 100, 101, 102, 97, 117, 108, 116 >>

\* the llmKeys lookupPrompt and updatePrompt are called with
LlmKeys == {DefaultLlmKey}

\* the cacheKey of CacheService.lookupPrompt and updatePrompt
promptCacheKey(prompt, llmKey) == llmKey \o Colon \o hashed(prompt)

\* the keys, values and patterns the operations are called with
CacheKeys ==
  {HealthKey} \cup {FullKey(createCacheKey(p)) : p \in Prompts}
              \cup {FullKey(contextCacheKey(p, DefaultMaxDocs, DefaultMinScore)) :
                      p \in Prompts}

CacheValues == {HealthValue}

Patterns == {CachePattern, LlmPattern}

\* a key matches a pattern of Redis: a pattern that ends in '*' matches the keys
\* that begin with what precedes the '*', any other pattern matches itself
Matches(pattern, key) ==
  LET n == Len(pattern)
  IN  IF n >= 1 /\ <<pattern[n]>> = Star
        THEN /\ Len(key) >= n - 1
             /\ SubSeq(key, 1, n - 1) = SubSeq(pattern, 1, n - 1)
        ELSE key = pattern

\* client.keys(pattern)
ClientKeys(pattern) == {k \in DOMAIN redis : Matches(pattern, k)}

\* client.del(keys)
ClientDel(keys) == [k \in DOMAIN redis \ keys |-> redis[k]]

\* CacheService.get where the catch rethrows
getRethrows(key, at) ==
  IF ~ClientCallSucceeds THEN Failed
  ELSE IF at = "connect" THEN Pending("get", redis)
  ELSE Gave(ClientGet(key), redis)

\* CacheService.get, as the call it awaits at at is answered
get(key, at) ==
  IF ~ClientCallSucceeds THEN Gave(Null, redis)
  ELSE IF at = "connect" THEN Pending("get", redis)
  ELSE Gave(ClientGet(key), redis)

\* CacheService.exists
exists(key, at) ==
  IF ~ClientCallSucceeds THEN Gave(FALSE, redis)
  ELSE IF at = "connect" THEN Pending("exists", redis)
  ELSE Gave(key \in DOMAIN redis, redis)

\* CacheService.set; ttl is 0 where none is given.  at is "set" for the call of
\* client.setEx and for that of client.set
set(key, value, ttl, at) ==
  IF ~ClientCallSucceeds THEN Failed
  ELSE IF at = "connect" THEN Pending("set", redis)
  ELSE IF ttl # 0 THEN Gave(Null, ClientSetEx(key, ttl, value))
  ELSE Gave(Null, ClientSet(key, value))

\* CacheService.del where the catch does not rethrow
delSwallows(key, at) ==
  IF ~ClientCallSucceeds THEN Gave(Null, redis)
  ELSE IF at = "connect" THEN Pending("del", redis)
  ELSE Gave(Null, ClientDel({key}))

\* CacheService.del
del(key, at) ==
  IF ~ClientCallSucceeds THEN Failed
  ELSE IF at = "connect" THEN Pending("del", redis)
  ELSE Gave(Null, ClientDel({key}))

\* CacheService.expire
expire(key, ttl, at) ==
  IF ~ClientCallSucceeds THEN Failed
  ELSE IF at = "connect" THEN Pending("expire", redis)
  ELSE Gave(Null, ClientExpire(key, ttl))

\* CacheService.flushCache: client.keys(pattern), then client.del of the keys it
\* found, if any; keys is what client.keys returned
flushCache(pattern, at, keys) ==
  IF ~ClientCallSucceeds THEN Failed
  ELSE IF at = "connect" THEN Pending("keys", redis)
  ELSE IF at = "keys"
    THEN IF ClientKeys(pattern) = {} THEN Gave(Null, redis)
         ELSE [Pending("del", redis) EXCEPT !.keys = ClientKeys(pattern)]
  ELSE Gave(Null, ClientDel(keys))

\* LLMService.clearCache(pattern) where this.cacheService is set; Null: no pattern
clearCache(pattern, at, keys) ==
  flushCache(IF Truthy(pattern) THEN pattern ELSE LlmPattern, at, keys)

\* the call of the client an operation makes first
FirstCall(op) ==
  CASE op \in {"lookup", "lookupPrompt", "get"} -> "get"
    [] op \in {"update", "updatePrompt"} -> "setEx"
    [] op \in {"flushCache", "clearCache"} -> "keys"
    [] OTHER -> op

\* what the operation c does as the call of the client it awaits is answered
CacheStep(c) ==
  CASE c.op \in {"lookup", "lookupPrompt"} -> lookup(c.arg, c.at)
    [] c.op \in {"update", "updatePrompt"} -> update(c.arg, c.input, c.at)
    [] c.op = "get" -> get(c.arg, c.at)
    [] c.op = "exists" -> exists(c.arg, c.at)
    [] c.op = "set" -> set(c.arg, c.input, c.ttl, c.at)
    [] c.op = "del" -> del(c.arg, c.at)
    [] c.op = "expire" -> expire(c.arg, c.ttl, c.at)
    [] c.op = "flushCache" -> flushCache(c.arg, c.at, c.keys)
    [] c.op = "clearCache" -> clearCache(c.arg, c.at, c.keys)

\* what the direct operations leave alone
cacheRest ==
  << redisUp, singletonVars, llmVars, vectorVars, req, last, earlyCalls, embedUp,
     qdrantUp, collection, modelWidth, embeddingDimensions, vop, health, keyed,
     moreVars >>

\* the operation op of the singleton is called with arg, with input where it stores
\* and ttl where it takes one: it runs to its first await.  The operations are
\* called one after the other
CacheOperation(op, arg, input, ttl) ==
  /\ cacheOp.op # "none" => cacheOp.ended
  /\ cacheOp' = [op |-> op, arg |-> arg, input |-> input, ttl |-> ttl,
                 ended |-> FALSE,
                 at |-> firstAwait(isConnected, FirstCall(op)), keys |-> {},
                 threw |-> FALSE, value |-> Null, failed |-> FALSE, cut |-> FALSE]
  /\ UNCHANGED << cacheRest, redis, isConnected >>

\* the call of the client the operation awaits is answered: the operation runs to
\* its next await or to its end.  failed tells that the call failed, cut that it
\* was the connecting
CacheAnswer ==
  /\ cacheOp.op # "none"
  /\ ~cacheOp.ended
  /\ LET result == CacheStep(cacheOp)
     IN  /\ cacheOp' = [cacheOp EXCEPT
                          !.ended = result.ended, !.at = result.at,
                          !.keys = result.keys, !.threw = result.threw,
                          !.value = result.value,
                          !.failed = ~ClientCallSucceeds,
                          !.cut = ~ClientCallSucceeds /\ cacheOp.at = "connect"]
         /\ redis' = result.store
  /\ isConnected' = ensureConnection(isConnected, cacheOp.at)
  /\ UNCHANGED cacheRest

CacheLookup ==
  /\ cacheServiceInstance
  /\ \E p \in Prompts : CacheOperation("lookup", createCacheKey(p), Null, 0)

CacheUpdate ==
  /\ cacheServiceInstance
  /\ \E p \in Prompts, v \in CacheValues :
       CacheOperation("update", createCacheKey(p), v, 0)

\* lookupPrompt(p, llmKey): the lookup of its cacheKey
CacheLookupPrompt ==
  /\ cacheServiceInstance
  /\ \E p \in Prompts, llmKey \in LlmKeys :
       CacheOperation("lookupPrompt", promptCacheKey(p, llmKey), Null, 0)

\* updatePrompt(p, v, llmKey): the update of its cacheKey with v
CacheUpdatePrompt ==
  /\ cacheServiceInstance
  /\ \E p \in Prompts, v \in CacheValues, llmKey \in LlmKeys :
       CacheOperation("updatePrompt", promptCacheKey(p, llmKey), v, 0)

CacheGet ==
  /\ cacheServiceInstance
  /\ \E k \in CacheKeys : CacheOperation("get", k, Null, 0)

CacheExists ==
  /\ cacheServiceInstance
  /\ \E k \in CacheKeys : CacheOperation("exists", k, Null, 0)

CacheSet ==
  /\ cacheServiceInstance
  /\ \E k \in CacheKeys, v \in CacheValues, ttl \in {0, TimeToLive} :
       CacheOperation("set", k, v, ttl)

CacheDel ==
  /\ cacheServiceInstance
  /\ \E k \in CacheKeys : CacheOperation("del", k, Null, 0)

CacheExpire ==
  /\ cacheServiceInstance
  /\ \E k \in CacheKeys : CacheOperation("expire", k, Null, TimeToLive)

CacheFlush ==
  /\ cacheServiceInstance
  /\ \E p \in Patterns : CacheOperation("flushCache", p, Null, 0)

\* clearCache is called on the LLMService whose cacheService is the singleton
ClearCache ==
  /\ cacheService = "instance"
  /\ \E pattern \in {Null} \cup Patterns :
       CacheOperation("clearCache", pattern, Null, 0)

\* an entry that has a time to live outlives it: Redis drops it
EntryExpires ==
  /\ \E k \in DOMAIN redis :
       /\ redis[k].timed
       /\ redis' = ClientDel({k})
  /\ UNCHANGED << cacheRest, cacheOp, isConnected >>

\* The CacheService singleton as its callers use it, from the construction of the
\* LLMService on.
NextCache ==
  \/ RedisGoesDown
  \/ RedisComesUp
  \/ ClientConnects
  \/ ClientError
  \/ ConstructLLMService
  \/ PollTick
  \/ CacheLookup
  \/ CacheUpdate
  \/ CacheLookupPrompt
  \/ CacheUpdatePrompt
  \/ CacheGet
  \/ CacheExists
  \/ CacheSet
  \/ CacheDel
  \/ CacheExpire
  \/ CacheFlush
  \/ CacheAnswer
  \/ EntryExpires

SpecCache == Init /\ [][NextCache]_vars

(***************************************************************************)
(* LLMService.healthCheck.                                                 *)
(***************************************************************************)
\* "test", the prompt of the probe of the backend
ProbePrompt == << 116, 101, 115, 116 >>

\* nothing is recorded under a key of details
Absent == "absent"

\* how the probe of the backend may end: ollama.invoke resolves or rejects
ProbeOutcomes ==
  {[ok |-> TRUE, message |-> << >>]} \cup {[ok |-> FALSE, message |-> e] : e \in ErrorMessages}

\* LLMService.healthCheck: invoked is how ollama.invoke("test") ended, cs is
\* cacheService after ensureInitialized, status its getStatus(), vectorHealth
\* what vectorStoreService.healthCheck() returned.  details.cache is the status
\* when there is a cacheService and is not written when there is none; the catch
\* of the probe, which would write the message of an error (kind "error"), is not
\* entered, as neither ensureInitialized nor getStatus throws
healthCheck(invoked, cs, status, vectorHealth) ==
  [op |-> "healthCheck", threw |-> FALSE,
   probes |-> << "ollama", "cache", "vectorStore" >>,
   ollama |-> invoked.ok,
   cache |-> IF cs = "instance" THEN status.connected ELSE FALSE,
   vectorStore |-> vectorHealth.connected,
   details |-> [ollama |-> IF invoked.ok THEN Absent ELSE invoked.message,
                cache |-> IF cs = "instance"
                            THEN [kind |-> "status", status |-> status]
                            ELSE [kind |-> Absent],
                vectorStore |-> vectorHealth]]

\* CacheService.getStatus
getStatus == [connected |-> statusConnected]

\* what healthCheck leaves alone
healthRest ==
  << cacheVars, cacheServiceInstance, instancesCreated, initPc, attempts, vectorVars,
     req, last, earlyCalls, cacheOp, embedUp, qdrantUp, collection, modelWidth,
     embeddingDimensions, keyed, moreVars >>

\* a healthCheck is in service
HealthBusy == health.op = "healthCheck" /\ ~health.ended

\* llmService.healthCheck() is called: it awaits ollama.invoke("test")
HealthCheck ==
  /\ initPc # "new"
  /\ ~HealthBusy
  /\ health' = [op |-> "healthCheck", ended |-> FALSE, at |-> "invoke"]
  /\ UNCHANGED << healthRest, handedOut, llmVars, vop >>

\* ollama.invoke("test") resolves or rejects.  The probe of the cache follows,
\* which awaits nothing the environment answers, and then
\* vectorStoreService.healthCheck() is called.  usable keeps what the probe of
\* the cache met: whether the service has a cache and its client is connected
HealthInvoked ==
  /\ HealthBusy
  /\ health.at = "invoke"
  /\ ~VectorBusy
  /\ ensureInitialized
  /\ \E invoked \in ProbeOutcomes :
       health' = [op |-> "healthCheck", ended |-> FALSE, at |-> "vectorStore",
                  invoked |-> invoked, cs |-> cacheService', status |-> getStatus,
                  usable |-> cacheService' # "null" /\ isConnected]
  /\ vop' = vectorHealthCheckCalled(VectorCall("healthCheck", 1, 1))
  /\ UNCHANGED healthRest

\* await vectorStoreService.healthCheck() returns, and healthCheck returns; met
\* keeps what the three probes met
HealthReturns ==
  /\ HealthBusy
  /\ health.at = "vectorStore"
  /\ vop.op = "healthCheck"
  /\ vop.ended
  /\ health' = healthCheck(health.invoked, health.cs, health.status, vop.health)
                @@ [ended |-> TRUE,
                    met |-> [ollama |-> health.invoked,
                             cache |-> health.usable,
                             vectorStore |-> vop.health]]
  /\ UNCHANGED << healthRest, handedOut, llmVars, vop >>

\* The service under health checks, from the construction of the two services on.
NextHealth ==
  \/ RedisGoesDown
  \/ RedisComesUp
  \/ ClientConnects
  \/ ClientError
  \/ ConstructLLMService
  \/ PollTick
  \/ EmbeddingsGoDown
  \/ EmbeddingsComeUp
  \/ QdrantGoesDown
  \/ QdrantComesUp
  \/ VectorAnswers
  \/ HealthCheck
  \/ HealthInvoked
  \/ HealthReturns

SpecHealth == InitVector /\ [][NextHealth]_vars

(***************************************************************************)
(* The cache keys as functions of what they are derived from.              *)
(***************************************************************************)
\* "dengcao/Qwen3-Embedding-0.6B:Q8_0", the model of the embeddings
EmbeddingModelName ==
  << 100, 101, 110, 103, 99, 97, 111, 47, 81, 119, 101, 110, 51, 45, 69, 109, 98, 101, 100, 100, 105, 110, 103, 45, 48, 46, 54, 66, 58, 81, 56, 95, 48 >>

\* the models and temperatures (in thousandths) an Ollama may be configured with,
\* the maxDocs and minScore (in thousandths) a request may carry
Models == {ModelName, EmbeddingModelName}

Temperatures == {0, 200, OllamaTemperature}

MaxDocsChoices == {1, DefaultMaxDocs}

MinScoreChoices == {DefaultMinScore, 500}

KeyInputs ==
  [model : Models, temperature : Temperatures, prompt : Prompts,
   maxDocs : MaxDocsChoices, minScore : MinScoreChoices]

\* createCacheKey: what precedes the hash, for an Ollama with the model and the
\* temperature
KeyPrefix(model, temperature) ==
  LET modelKey == IF model = <<>> THEN UnknownModel ELSE model
      temp == IF temperature = 0 THEN FallbackTemperature ELSE temperature
  IN  LlmPrefix \o modelKey \o TempInfix \o NumberToString(temp) \o Colon

\* createCacheKey of an LLMService whose Ollama has the model and the temperature
createCacheKeyOf(model, temperature, prompt) ==
  KeyPrefix(model, temperature) \o hashPrompt(prompt)

\* the keys of a request: the prefix, the key of generate, the text and the key of
\* generateWithContext
Derived(in) ==
  [prefix |-> KeyPrefix(in.model, in.temperature),
   plainKey |-> createCacheKeyOf(in.model, in.temperature, in.prompt),
   text |-> ragText(in.prompt, in.maxDocs, in.minScore),
   ragKey |-> createCacheKeyOf(in.model, in.temperature,
                               ragText(in.prompt, in.maxDocs, in.minScore))]

\* two requests for the same prompt
InitKeys ==
  /\ ServiceIdle
  /\ vectorInitPc = "running"
  /\ embeddingDims = 0
  /\ vectorStore = FALSE
  /\ vectorIsInitialized = FALSE
  /\ cacheOp = NoOperation
  /\ embedUp = TRUE
  /\ qdrantUp = TRUE
  /\ collection = 0
  /\ modelWidth = FallbackDimensions
  /\ embeddingDimensions = 0
  /\ vop = NoOperation
  /\ health = NoOperation
  /\ keyed \in {k \in [op : {"inputs"}, a : KeyInputs, b : KeyInputs] :
                  k.a.prompt = k.b.prompt}
  /\ MoreIdle

\* the keys of the two requests are derived
DeriveKeys ==
  /\ keyed.op = "inputs"
  /\ keyed' = [op |-> "derived", a |-> keyed.a, b |-> keyed.b,
               keysA |-> Derived(keyed.a), keysB |-> Derived(keyed.b),
               again |-> Derived(keyed.a)]
  /\ UNCHANGED << cacheVars, singletonVars, llmVars, vectorVars, req, last, earlyCalls,
                  cacheOp, embedUp, qdrantUp, collection, modelWidth,
                  embeddingDimensions, vop, health, moreVars >>

NextKeys == DeriveKeys

SpecKeys == InitKeys /\ [][NextKeys]_vars

(***************************************************************************)
(* The pure functions: the selection of the retrieved documents and the    *)
(* assembly of the prompt, the extraction of the response text, and the    *)
(* delay of the client's reconnects.                                       *)
(***************************************************************************)
\* the retry counts the reconnect strategy is asked for
MaxRetries == 60

\* the step and the ceiling of the reconnect delay, in milliseconds
BackoffStep == 100

BackoffCeiling == 5000

\* the scores the index may give, in thousandths
Scores == {900, 600, 200, 0}

\* the documents the index may return
ScoredDocuments == [pageContent : {<<120>>, <<121>>}, source : {<<>>, <<97>>}, score : Scores]

\* what the index may answer a search with: at most DefaultMaxDocs documents, best
\* first
SearchAnswers ==
  {found \in UNION {[1..n -> ScoredDocuments] : n \in 0..DefaultMaxDocs} :
     \A i \in 1..Len(found) - 1 : found[i].score >= found[i + 1].score}

\* the least scores requests ask for, in thousandths
MinScores == {DefaultMinScore, 500, 900}

AssemblyInputs ==
  [op : {"documents"}, found : SearchAnswers, minScore : MinScores,
   includeScores : BOOLEAN, prompt : Prompts]

\* a field of a response object: absent, the empty string, or a text of its own
FieldValues(text) == {Null, <<>>, text}

\* what ollama.invoke may resolve to when it is not a string: the fields hold "c",
\* "t", "m", "o" and "r"; toString() yields "[object Object]" or "s"
ObjectResponses ==
  [kind : {"object"}, content : FieldValues(<<99>>), text : FieldValues(<<116>>),
   message : FieldValues(<<109>>), output : FieldValues(<<111>>),
   response : FieldValues(<<114>>), str : {ObjectObject, <<115>>}]

ExtractionInputs == [op : {"response"}, response : Responses \cup ObjectResponses]

RetryInputs == [op : {"retries"}, retries : 0..MaxRetries]

\* the prompts generate may be called with: those of Prompts, and the texts that
\* generateWithContext hashes for them, which are prompts as well
PathPrompts ==
  Prompts \cup {ragText(q, maxDocs, minScore) :
                  q \in Prompts, maxDocs \in MaxDocsChoices, minScore \in MinScores}

\* a generate(p) and a generateWithContext(q, options)
PathInputs ==
  [op : {"paths"}, p : PathPrompts, q : Prompts, maxDocs : MaxDocsChoices,
   minScore : MinScores]

\* the reconnect strategy without its ceiling
reconnectStrategyUnbounded(retries) == retries * BackoffStep

\* the reconnectStrategy of the client CacheService creates
reconnectStrategy(retries) ==
  IF retries * BackoffStep < BackoffCeiling THEN retries * BackoffStep ELSE BackoffCeiling

pureRest ==
  << cacheVars, singletonVars, llmVars, vectorVars, req, last, earlyCalls, cacheOp,
     embedUp, qdrantUp, collection, modelWidth, embeddingDimensions, vop, health,
     keyed, moduleConnected, shutdown, served, concurrent >>

InitPure ==
  /\ ServiceIdle
  /\ vectorInitPc = "running"
  /\ embeddingDims = 0
  /\ vectorStore = FALSE
  /\ vectorIsInitialized = FALSE
  /\ cacheOp = NoOperation
  /\ embedUp = TRUE
  /\ qdrantUp = TRUE
  /\ collection = 0
  /\ modelWidth = FallbackDimensions
  /\ embeddingDimensions = 0
  /\ vop = NoOperation
  /\ health = NoOperation
  /\ keyed = NoOperation
  /\ moduleConnected = FALSE
  /\ shutdown = NoSignal
  /\ served = NoOperation
  /\ concurrent = NoOperation
  /\ applied \in AssemblyInputs \cup ExtractionInputs \cup RetryInputs \cup PathInputs

\* generateWithContext from the answer of the index to the prompt it hands to the
\* backend, or to generate when no document is left
Assemble ==
  /\ applied.op = "documents"
  /\ LET relevantDocs ==
           relevantDocsOf(applied.found, applied.minScore, applied.includeScores)
     IN  applied' =
           [op |-> "assembled", found |-> applied.found, minScore |-> applied.minScore,
            includeScores |-> applied.includeScores, prompt |-> applied.prompt,
            relevantDocs |-> relevantDocs,
            text |-> IF relevantDocs = << >>
                       THEN noContextPrompt(applied.prompt)
                       ELSE augmentedPrompt(relevantDocs, applied.prompt)]
  /\ UNCHANGED pureRest

\* extractResponseText of what the backend resolved to
Extract ==
  /\ applied.op = "response"
  /\ applied' = [op |-> "extracted", response |-> applied.response,
                 text |-> extractResponseText(applied.response)]
  /\ UNCHANGED pureRest

\* the client asks for the delay of its next reconnect, and of the one after
Reconnect ==
  /\ applied.op = "retries"
  /\ applied' = [op |-> "delay", retries |-> applied.retries,
                 delay |-> reconnectStrategy(applied.retries),
                 next |-> reconnectStrategy(applied.retries + 1)]
  /\ UNCHANGED pureRest

\* the key generate(p) reads and writes, and the one generateWithContext(q, options)
\* reads and writes
DerivePaths ==
  /\ applied.op = "paths"
  /\ applied' = [op |-> "keys", p |-> applied.p, q |-> applied.q,
                 maxDocs |-> applied.maxDocs, minScore |-> applied.minScore,
                 cacheKey |-> createCacheKey(applied.p),
                 contextCacheKey |->
                   contextCacheKey(applied.q, applied.maxDocs, applied.minScore)]
  /\ UNCHANGED pureRest

NextPure ==
  \/ DerivePaths
  \/ Assemble
  \/ Extract
  \/ Reconnect

SpecPure == InitPure /\ [][NextPure]_vars

(***************************************************************************)
(* GET /health.                                                            *)
(***************************************************************************)
\* the module-level cacheService: client.on('connect'), and the connect() of its
\* constructor resolving
ModuleConnects ==
  /\ redisUp
  /\ ~moduleConnected
  /\ moduleConnected' = TRUE
  /\ UNCHANGED << cacheVars, singletonVars, llmVars, vectorVars, req, last, earlyCalls,
                  cacheOp, embedUp, qdrantUp, collection, modelWidth,
                  embeddingDimensions, vop, health, keyed, applied, shutdown, served,
                  concurrent >>

\* the module-level cacheService: client.on('error')
ModuleError ==
  /\ ~redisUp
  /\ moduleConnected
  /\ moduleConnected' = FALSE
  /\ UNCHANGED << cacheVars, singletonVars, llmVars, vectorVars, req, last, earlyCalls,
                  cacheOp, embedUp, qdrantUp, collection, modelWidth,
                  embeddingDimensions, vop, health, keyed, applied, shutdown, served,
                  concurrent >>

\* the response of the route: res.json(...) and res.status(503).json(...); met
\* tells what was the case when it was sent
Healthy(cacheStatus, met) ==
  [op |-> "health", pc |-> "done", code |-> 200,
   body |-> [status |-> "healthy",
             cache |-> IF cacheStatus = HealthValue THEN "working" ELSE "broken",
             timestamp |-> "now"],
   met |-> met]

Unhealthy(met) ==
  [op |-> "health", pc |-> "done", code |-> 503,
   body |-> [status |-> "unhealthy", error |-> "error"], met |-> met]

routeRest ==
  << redisUp, cacheServiceInstance, instancesCreated, initPc, attempts, vectorVars,
     req, last, earlyCalls, cacheOp, embedUp, qdrantUp, collection, modelWidth,
     embeddingDimensions, vop, health, keyed, applied, shutdown, concurrent >>

\* what is the case when the route responds: Redis answers, the backend answered
\* the ping r (or was not asked, the ping being cached), the vector store is ready
Met(r) ==
  [cache |-> redisUp,
   ollama |-> \A i \in 1..Len(r.log) : r.log[i].type = "invoke" => r.log[i].ok,
   vectorStore |-> vectorIsReady]

\* GET /health arrives: the handler runs to the first await of
\* cacheService.set('healthcheck', 'ok')
RouteArrives ==
  /\ initPc # "new"
  /\ served.op = "health" => served.pc = "done"
  /\ served' = [op |-> "health", pc |-> "set",
                at |-> firstAwait(moduleConnected, "set"), cacheStatus |-> Null,
                r |-> NoRequest]
  /\ UNCHANGED << routeRest, redis, isConnected, moduleConnected, handedOut, llmVars >>

\* await cacheService.set('healthcheck', 'ok'), from one answer of the client to
\* the next; past it the handler runs to the first await of cacheService.get
RouteSet ==
  /\ served.op = "health"
  /\ served.pc = "set"
  /\ LET result == set(HealthKey, HealthValue, 0, served.at)
         connected == ensureConnection(moduleConnected, served.at)
     IN  /\ served' =
               IF ~result.ended THEN [served EXCEPT !.at = result.at]
               ELSE IF result.threw THEN Unhealthy(Met(served.r))
               ELSE [served EXCEPT !.pc = "get", !.at = firstAwait(connected, "get")]
         /\ redis' = result.store
         /\ moduleConnected' = connected
  /\ UNCHANGED << routeRest, isConnected, handedOut, llmVars >>

\* await cacheService.get('healthcheck'); past it llmService.generate("ping") is
\* called and runs to its first await
RouteGet ==
  /\ served.op = "health"
  /\ served.pc = "get"
  /\ LET result == get(HealthKey, served.at)
         ping == [NoRequest EXCEPT !.op = "generate", !.prompt = PingPrompt]
     IN  IF ~result.ended
           THEN /\ served' = [served EXCEPT !.at = result.at]
                /\ UNCHANGED << handedOut, llmVars >>
           ELSE /\ ensureInitialized
                /\ served' =
                     [served EXCEPT
                        !.pc = "ping", !.at = "none", !.cacheStatus = result.value,
                        !.r = Awaiting(EnterGenerate(ping, PingPrompt, "top",
                                                     cacheService'),
                                       isConnected)]
  /\ moduleConnected' = ensureConnection(moduleConnected, served.at)
  /\ UNCHANGED << routeRest, redis, isConnected >>

\* what the backend does with the ping
PingOutcomes == [ok : {TRUE}, response : Responses] \cup [ok : {FALSE}, message : ErrorMessages]

\* the ping r as the call it awaits is answered: the lookup, the invocation of the
\* backend, which ends as outcome, or the update
Pinged(r, outcome) ==
  IF r.pc = "lookup"
    THEN LET step == LookupStep(r, r.cacheKey)
         IN  Stepped(step, generateAfterLookup(step.r, step.value, cacheService))
  ELSE IF r.pc = "update"
    THEN LET step == UpdateStep(r, r.cacheKey)
         IN  Stepped(step, generateAfterUpdate(step.r, step.threw, cacheService))
  ELSE IF outcome.ok
    THEN LET event == Event("invoke", <<>>, r.gPrompt,
                            extractResponseText(outcome.response), TRUE)
         IN  Awaiting(generateAfterInvoke(Logged(r, event), outcome.response,
                                          cacheService),
                      isConnected)
  ELSE LET event == Event("invoke", <<>>, r.gPrompt, outcome.message, FALSE)
       IN  Awaiting(generateCatch(Logged(r, event), outcome.message, cacheService),
                    isConnected)

\* await llmService.generate("ping"), from one await of it to the next; its result
\* is dropped, and once it has returned the route responds
RoutePing ==
  /\ served.op = "health"
  /\ served.pc = "ping"
  /\ \E outcome \in IF served.r.pc = "invoke" THEN PingOutcomes
                    ELSE {[ok |-> TRUE, response |-> StringResponse(<<>>)]} :
       LET r == Pinged(served.r, outcome)
       IN  served' = IF r.pc = "done" THEN Healthy(served.cacheStatus, Met(r))
                     ELSE [served EXCEPT !.r = r]
  /\ redis' = IF served.r.pc = "update"
                THEN update(served.r.cacheKey, served.r.responseText, served.r.at).store
                ELSE redis
  /\ isConnected' = IF served.r.pc \in {"lookup", "update"}
                      THEN ensureConnection(isConnected, served.r.at)
                      ELSE isConnected
  /\ UNCHANGED << routeRest, moduleConnected, handedOut, llmVars >>

\* The server under GET /health, from the construction of the services on.
NextRoute ==
  \/ RedisGoesDown
  \/ RedisComesUp
  \/ ClientConnects
  \/ ClientError
  \/ ModuleConnects
  \/ ModuleError
  \/ ConstructLLMService
  \/ PollTick
  \/ VectorInitDetects
  \/ VectorInitChecks
  \/ VectorInitCreates
  \/ VectorInitSucceeds
  \/ VectorInitFails
  \/ RouteArrives
  \/ RouteSet
  \/ RouteGet
  \/ RoutePing

SpecRoute == Init /\ [][NextRoute]_vars

(***************************************************************************)
(* SIGTERM and SIGINT.                                                     *)
(***************************************************************************)
\* Every disconnect advances from its call to the answer of client.quit() in one
\* step when it is called on a connected instance, and returns at once when not.

\* CacheService.disconnect.  connected: isConnected when it was called; quitOk:
\* client.quit() resolved; now: isConnected when it returns.  It tells whether it
\* threw, whether client.quit() was called, and isConnected after it
disconnect(connected, quitOk, now) ==
  [threw |-> FALSE, quit |-> connected,
   isConnected |-> IF connected /\ quitOk THEN FALSE ELSE now]

\* a disconnect of the instance, called by the handler by, has ended
Disconnected(s, instance, by, connected, quitOk, now) ==
  LET ended == disconnect(connected, quitOk, now)
  IN  [s EXCEPT
         !.disconnects =
           Append(@, [instance |-> instance, by |-> by, connected |-> connected,
                      threw |-> ended.threw, quit |-> ended.quit,
                      isReady |-> ended.isConnected])]

shutdownRest ==
  << redisUp, redis, singletonVars, llmVars, vectorVars, req, last, earlyCalls,
     cacheOp, embedUp, qdrantUp, collection, modelWidth, embeddingDimensions, vop,
     health, keyed, applied, served, concurrent >>

\* gracefulShutdown at `await cacheService.disconnect()`: the disconnect of the
\* module-level instance calls quit when that is connected, and returns at once
\* when it is not; the await gives way in both cases, and process.exit(0) comes
\* after it ("exit": the disconnect has returned and process.exit is to come)
ShutdownFromModule(s) ==
  IF moduleConnected
    THEN [s EXCEPT !.pc = "module"]
    ELSE [Disconnected(s, "module", "gracefulShutdown", FALSE, FALSE,
                       moduleConnected)
            EXCEPT !.pc = "exit"]

\* gracefulShutdown up to its first await, `await cacheServiceInstance.disconnect()`
\* when there is a singleton: the disconnect calls quit when the singleton is
\* connected and returns at once when it is not, and the await of its promise gives
\* way to the listener registered next even then ("resolved": gracefulShutdown
\* waits at line 276 for a promise that is resolved)
gracefulShutdown(s) ==
  IF ~cacheServiceInstance THEN ShutdownFromModule(s)
  ELSE IF isConnected THEN [s EXCEPT !.pc = "singleton"]
  ELSE [Disconnected(s, "singleton", "gracefulShutdown", FALSE, FALSE, isConnected)
          EXCEPT !.pc = "resolved"]

\* gracefulShutdown resumes once the listeners have run to their awaits: past a
\* resolved `await cacheServiceInstance.disconnect()` it calls the disconnect of
\* the module-level instance, and past a resolved `await cacheService.disconnect()`
\* it calls process.exit(0); an await of a quit stays where it is
gracefulShutdownResumes(s) ==
  LET t == IF s.pc = "resolved" THEN ShutdownFromModule(s) ELSE s
  IN  IF t.pc = "exit" THEN [t EXCEPT !.pc = "exited"] ELSE t

\* the handler of llm.service, `await llmService.shutdown()`, up to its first await
llmShutdown(s) ==
  IF cacheService # "instance" THEN [s EXCEPT !.llm = "done"]
  ELSE IF isConnected THEN [s EXCEPT !.llm = "quit"]
  ELSE [Disconnected(s, "singleton", "llmService", FALSE, FALSE, isConnected)
          EXCEPT !.llm = "done"]

\* SIGTERM or SIGINT arrives once the modules are loaded: the listeners run in the
\* order of their registration, gracefulShutdown to its first await and then the
\* handler of llm.service to its own, and only then gracefulShutdown goes on past
\* the awaits that wait for no answer of Redis.  With no instance connected the
\* disconnects are those of the singleton by gracefulShutdown, of the singleton
\* by llmService.shutdown and of the module-level instance, in this order
Signal ==
  /\ initPc # "new"
  /\ shutdown.pc = "running"
  /\ shutdown' = gracefulShutdownResumes(llmShutdown(gracefulShutdown(shutdown)))
  /\ UNCHANGED << shutdownRest, isConnected, moduleConnected >>

\* the handler of llm.service: the client.quit() of its disconnect is answered
LLMShutdown ==
  /\ shutdown.pc # "exited"
  /\ shutdown.llm = "quit"
  /\ shutdown' = [Disconnected(shutdown, "singleton", "llmService", TRUE,
                               ClientCallSucceeds, isConnected)
                    EXCEPT !.llm = "done"]
  /\ isConnected' = disconnect(TRUE, ClientCallSucceeds, isConnected).isConnected
  /\ UNCHANGED << shutdownRest, moduleConnected >>

\* gracefulShutdown: the client.quit() of cacheServiceInstance.disconnect() is
\* answered, and gracefulShutdown goes on to the disconnect of the module-level
\* instance
ShutdownSingleton ==
  /\ shutdown.pc = "singleton"
  /\ shutdown' = gracefulShutdownResumes(
                    [Disconnected(shutdown, "singleton", "gracefulShutdown", TRUE,
                                  ClientCallSucceeds, isConnected)
                       EXCEPT !.pc = "resolved"])
  /\ isConnected' = disconnect(TRUE, ClientCallSucceeds, isConnected).isConnected
  /\ UNCHANGED << shutdownRest, moduleConnected >>

\* gracefulShutdown: the client.quit() of cacheService.disconnect() is answered, and
\* process.exit(0) follows
ShutdownModule ==
  /\ shutdown.pc = "module"
  /\ shutdown' = [Disconnected(shutdown, "module", "gracefulShutdown", TRUE,
                               ClientCallSucceeds, moduleConnected)
                    EXCEPT !.pc = "exited"]
  /\ moduleConnected' =
       disconnect(TRUE, ClientCallSucceeds, moduleConnected).isConnected
  /\ UNCHANGED << shutdownRest, isConnected >>

\* The process from the construction of the services to its exit; what the clients
\* do after it changes nothing that is looked at.
NextShutdown ==
  \/ RedisGoesDown
  \/ RedisComesUp
  \/ ClientConnects
  \/ ClientError
  \/ ModuleConnects
  \/ ModuleError
  \/ ConstructLLMService
  \/ PollTick
  \/ Signal
  \/ LLMShutdown
  \/ ShutdownSingleton
  \/ ShutdownModule

SpecShutdown == Init /\ [][NextShutdown]_vars

(***************************************************************************)
(* LLMService.clearCache.                                                  *)
(***************************************************************************)
\* The cache of the LLMService under lookups, updates and clearCache.
NextClear ==
  \/ RedisGoesDown
  \/ RedisComesUp
  \/ ClientConnects
  \/ ClientError
  \/ ConstructLLMService
  \/ PollTick
  \/ CacheLookup
  \/ CacheUpdate
  \/ ClearCache
  \/ CacheAnswer

SpecClear == Init /\ [][NextClear]_vars

(***************************************************************************)
(* generate requests for one prompt in service at the same time.  Each     *)
(* request runs from one await to the next in one step.                    *)
(***************************************************************************)
\* the number of requests in service at the same time
MaxRequests == 3

\* the service is initialized with a working cache, which is empty; the requests
\* have not arrived.  produced: the texts the backend has been invoked for so far;
\* known: what was produced when the request looked up; hit: its lookup returned
InitConcurrent ==
  /\ redisUp = TRUE
  /\ redis = << >>
  /\ cacheServiceInstance = TRUE
  /\ isConnected = TRUE
  /\ instancesCreated = 1
  /\ handedOut = {Returned(TRUE, 0)}
  /\ initPc = "ok"
  /\ attempts = 0
  /\ cacheService = "instance"
  /\ isInitialized = TRUE
  /\ vectorInitPc = "running"
  /\ embeddingDims = 0
  /\ vectorStore = FALSE
  /\ vectorIsInitialized = FALSE
  /\ req = NoRequest
  /\ last = NothingLeft
  /\ earlyCalls = 0
  /\ cacheOp = NoOperation
  /\ embedUp = TRUE
  /\ qdrantUp = TRUE
  /\ collection = 0
  /\ modelWidth = FallbackDimensions
  /\ embeddingDimensions = 0
  /\ vop = NoOperation
  /\ health = NoOperation
  /\ keyed = NoOperation
  /\ applied = NoOperation
  /\ moduleConnected = FALSE
  /\ shutdown = NoSignal
  /\ served = NoOperation
  /\ concurrent = [op |-> "generate",
                   requests |-> [i \in 1..MaxRequests |-> NoRequest],
                   produced |-> {},
                   known |-> [i \in 1..MaxRequests |-> {}],
                   hit |-> [i \in 1..MaxRequests |-> FALSE]]

concurrentRest ==
  << redisUp, singletonVars, llmVars, vectorVars, req, last, earlyCalls, cacheOp,
     embedUp, qdrantUp, collection, modelWidth, embeddingDimensions, vop, health,
     keyed, applied, moduleConnected, shutdown, served >>

\* generate(SharedPrompt) is called: it runs to its lookup
ConcurrentBegin ==
  /\ isInitialized
  /\ \E i \in 1..MaxRequests :
       /\ concurrent.requests[i].pc = "idle"
       /\ concurrent' =
            [concurrent EXCEPT
               !.requests[i] =
                 Awaiting(EnterGenerate([NoRequest EXCEPT !.op = "generate",
                                                          !.prompt = SharedPrompt],
                                        SharedPrompt, "top", cacheService),
                          isConnected)]
  /\ UNCHANGED << concurrentRest, redis, isConnected >>

\* generate: await this.cacheService.lookup(cacheKey), from one answer of the
\* client to the next
ConcurrentLookup ==
  /\ \E i \in 1..MaxRequests :
       LET r == concurrent.requests[i]
           step == LookupStep(r, r.cacheKey)
       IN  /\ r.pc = "lookup"
           /\ concurrent' =
                [concurrent EXCEPT
                   !.requests[i] =
                     Stepped(step, generateAfterLookup(step.r, step.value,
                                                       cacheService)),
                   !.known[i] = IF step.ended THEN concurrent.produced ELSE @,
                   !.hit[i] = step.ended /\ Truthy(step.value)]
           /\ isConnected' = ensureConnection(isConnected, r.at)
  /\ UNCHANGED << concurrentRest, redis >>

\* generate: await this.ollama.invoke(prompt) resolves
ConcurrentInvoke ==
  /\ \E i \in 1..MaxRequests, response \in Responses :
       LET r == concurrent.requests[i]
           event == Event("invoke", <<>>, r.gPrompt, extractResponseText(response),
                          TRUE)
       IN  /\ r.pc = "invoke"
           /\ concurrent' =
                [concurrent EXCEPT
                   !.requests[i] =
                     Awaiting(generateAfterInvoke(Logged(r, event), response,
                                                  cacheService),
                              isConnected),
                   !.produced = @ \cup {extractResponseText(response)}]
  /\ UNCHANGED << concurrentRest, redis, isConnected >>

\* generate: await this.cacheService.update(cacheKey, responseText), from one
\* answer of the client to the next
ConcurrentUpdate ==
  /\ \E i \in 1..MaxRequests :
       LET r == concurrent.requests[i]
           step == UpdateStep(r, r.cacheKey)
       IN  /\ r.pc = "update"
           /\ concurrent' =
                [concurrent EXCEPT
                   !.requests[i] =
                     Stepped(step, generateAfterUpdate(step.r, step.threw,
                                                       cacheService))]
           /\ redis' = update(r.cacheKey, r.responseText, r.at).store
           /\ isConnected' = ensureConnection(isConnected, r.at)
  /\ UNCHANGED concurrentRest

NextConcurrent ==
  \/ ConcurrentBegin
  \/ ConcurrentLookup
  \/ ConcurrentInvoke
  \/ ConcurrentUpdate

SpecConcurrent == InitConcurrent /\ [][NextConcurrent]_vars

(***************************************************************************)
(* What the log of the request in service tells.                           *)
(***************************************************************************)
Log == req.log

Indices(type) == {i \in 1..Len(Log) : Log[i].type = type}

Lookups == Indices("lookup")

Invokes == Indices("invoke")

Updates == Indices("update")

Searches == Indices("search")

CacheCalls == Lookups \cup Updates

Finished == req.pc = "done"

\* what generate(p) returns when the events of Log after index from are its own:
\* the value of its cache hit, the text it generated, or the degraded message
GenerateResult(from) ==
  LET e == Log[Len(Log)]
  IN  IF Len(Log) <= from THEN Null
      ELSE IF e.type = "invoke" /\ ~e.ok THEN ErrorPrefix \o e.text
      ELSE e.text

\* the events of Log after index from are those of generate(p)
IsGenerateOf(from, p) ==
  \A i \in (from + 1)..Len(Log) :
    /\ Log[i].type \in {"lookup", "invoke", "update"}
    /\ Log[i].type \in {"lookup", "update"} => Log[i].key = createCacheKey(p)
    /\ Log[i].type = "invoke" => Log[i].prompt = p

(***************************************************************************)
(* C1: when generate runs with a cache service and the cache holds an      *)
(* entry under the prompt's key, generate returns that entry verbatim and  *)
(* does not invoke the backend, whatever the entry, the empty string       *)
(* included.                                                               *)
(***************************************************************************)
C1_CacheShortCircuit ==
  (/\ req.op = "generate"
   /\ Len(Log) >= 1
   /\ Log[1].type = "lookup" /\ Log[1].ok /\ Log[1].text # Null)
  => /\ Invokes = {}
     /\ Finished => req.outcome = "returned" /\ req.result = Log[1].text

(***************************************************************************)
(* C2: generate never raises.  Whatever fails of cache initialization,     *)
(* cache lookup, backend invocation and cache store, a finished generate   *)
(* has returned a string, and when the backend invocation failed that      *)
(* string is "Error generating response: " followed by the message.        *)
(***************************************************************************)
C2_GenerateNeverRaises ==
  (req.op = "generate" /\ Finished)
  => /\ req.outcome = "returned"
     /\ req.result # Null
     /\ \A i \in Invokes : ~Log[i].ok => req.result = ErrorPrefix \o Log[i].text

\* a generate whose lookup failed and whose backend invocation failed has finished
C2_Witness ==
  /\ req.op = "generate" /\ Finished
  /\ \E i \in Lookups : ~Log[i].ok
  /\ \E i \in Invokes : ~Log[i].ok

(***************************************************************************)
(* C3: with the cache down, generate returns the generated text.  When     *)
(* every cache operation of a generate fails (or the cache was disabled    *)
(* because connecting failed) and the backend succeeds, the backend is     *)
(* invoked once, after the failed lookup, and generate returns exactly the *)
(* text extracted from its response.                                       *)
(***************************************************************************)
C3_CacheDownStillGenerates ==
  (/\ req.op = "generate" /\ Finished
   /\ \A i \in CacheCalls : ~Log[i].ok
   /\ \A i \in Invokes : Log[i].ok)
  => /\ req.outcome = "returned"
     /\ Cardinality(Invokes) = 1
     /\ \A i \in Invokes : req.result = Log[i].text /\ Log[i].prompt = req.prompt
     /\ \A i \in Lookups, j \in Invokes : i < j

\* a generate whose lookup and update both failed has returned the generated "A"
C3_Witness ==
  /\ req.op = "generate" /\ Finished
  /\ \E i \in Lookups : ~Log[i].ok
  /\ \E i \in Updates : ~Log[i].ok
  /\ \A i \in CacheCalls : ~Log[i].ok
  /\ req.result = <<65>>

(***************************************************************************)
(* C4: generateWithContext never raises.  An exception on the RAG path (a  *)
(* rejected invocation with the augmented prompt, a store under the RAG    *)
(* key that throws) is caught, and the request finishes by returning what  *)
(* generate(prompt) returns for the original prompt.                       *)
(***************************************************************************)
\* the events at which generateWithContext itself meets an exception
RagExceptions ==
  {i \in 1..Len(Log) :
     \/ /\ Log[i].type = "invoke" /\ ~Log[i].ok
        /\ Log[i].prompt = augmentedPrompt(req.relevantDocs, req.prompt)
     \/ Log[i].type = "update" /\ ~Log[i].ok /\ Log[i].key = req.ragKey}

C4_RagNeverRaises ==
  req.op = "generateWithContext"
  => /\ req.outcome # "raised"
     /\ Cardinality(RagExceptions) <= 1
     /\ \A x \in RagExceptions :
          /\ req.gCaller = "catch"
          /\ req.gPrompt = req.prompt
          /\ IsGenerateOf(x, req.prompt)
          /\ Finished => req.outcome = "returned" /\ req.result = GenerateResult(x)

\* a generateWithContext whose store under the RAG key threw has finished
C4_Witness ==
  /\ req.op = "generateWithContext" /\ Finished
  /\ \E x \in RagExceptions : Log[x].type = "update"

(***************************************************************************)
(* C5: when the vector store is not ready at a RAG cache miss,             *)
(* generateWithContext searches nothing and does what generate(prompt)     *)
(* does: the backend, if invoked, gets the original prompt, the cache is   *)
(* read and written under the key of the original prompt, and the result   *)
(* is that of generate(prompt).                                            *)
(***************************************************************************)
\* the events at which isReady() returned false
NotReadyAt == {i \in Indices("isReady") : ~Log[i].ok}

C5_NotReadyFallback ==
  req.op = "generateWithContext"
  => \A x \in NotReadyAt :
       /\ Searches = {}
       /\ \A i \in Invokes : Log[i].prompt = req.prompt
       /\ IsGenerateOf(x, req.prompt)
       /\ Cardinality(Invokes) <= 1
       /\ req.outcome # "raised"
       /\ Finished => req.outcome = "returned" /\ req.result = GenerateResult(x)

\* a generateWithContext that missed the cache and found the vector store not ready
\* has returned the text the backend generated for the original prompt
C5_Witness ==
  /\ req.op = "generateWithContext" /\ Finished
  /\ NotReadyAt # {}
  /\ \E i \in Lookups : i < CHOOSE x \in NotReadyAt : TRUE
  /\ \E i \in Invokes : Log[i].ok /\ Log[i].prompt = req.prompt

(***************************************************************************)
(* Requests that follow one another.                                       *)
(***************************************************************************)
\* the request in service is a generateWithContext with the prompt, maxDocs and
\* minScore of the request that left its response under the RAG key
RepeatsLast ==
  /\ req.op = "generateWithContext"
  /\ req.prompt = last.prompt
  /\ req.options.maxDocs = last.maxDocs
  /\ req.options.minScore = last.minScore

\* the cache works for the request in service: it has a cache service, and no
\* lookup or update of it has failed
CacheWorks ==
  /\ Len(Log) >= 1 /\ Log[1].type = "lookup"
  /\ \A i \in CacheCalls : Log[i].ok

\* the search of the request in service left no document
NoDocumentSurvived == Searches # {} /\ req.relevantDocs = <<>> /\ req.pc # "search"

(***************************************************************************)
(* C6: when no document survives the retrieval and the cache works,        *)
(* generateWithContext(Q) invokes the backend with Q plus the no-context   *)
(* note, returns that text and stores it under the RAG key, not under the  *)
(* key of generate(Q); a later identical call is served from the cache     *)
(* without a search.                                                       *)
(***************************************************************************)
C6_NoContextFallbackCaching ==
  /\ (/\ req.op = "generateWithContext" /\ Finished
      /\ NoDocumentSurvived /\ CacheWorks
      /\ \A i \in Invokes : Log[i].ok)
     => /\ \E i \in Invokes :
             /\ Log[i].prompt = noContextPrompt(req.prompt)
             /\ req.result = Log[i].text
        /\ \E u \in Updates : Log[u].key = req.ragKey /\ Log[u].text = req.result
        /\ \A u \in Updates : Log[u].key # createCacheKey(req.prompt)
  /\ (last.kind = "noContext" /\ RepeatsLast /\ CacheWorks)
     => /\ Searches = {}
        /\ Invokes = {}
        /\ Finished => req.result = last.text

(***************************************************************************)
(* C7: after a generateWithContext that generated its response from an     *)
(* augmented prompt with a working cache, the next call with the same      *)
(* prompt, maxDocs and minScore returns the same text without a backend    *)
(* invocation and without a search, whatever the text.                     *)
(***************************************************************************)
C7_RepeatCallCached ==
  (last.kind = "augmented" /\ RepeatsLast /\ CacheWorks)
  => /\ Invokes = {}
     /\ Searches = {}
     /\ Finished => req.outcome = "returned" /\ req.result = last.text

(***************************************************************************)
(* C8: within one request the lookup of the request's key comes before     *)
(* every backend invocation, every cache store comes after the backend     *)
(* invocation whose text it stores, and no store comes before the lookup.  *)
(***************************************************************************)
\* the key the request in service looks up first
RequestKey == IF req.op = "generate" THEN createCacheKey(req.prompt) ELSE req.ragKey

C8_StepOrdering ==
  /\ \A i \in Lookups, j \in Invokes : Log[i].key = RequestKey => i < j
  /\ \A u \in Updates :
       \E j \in Invokes : j < u /\ Log[j].ok /\ Log[j].text = Log[u].text
  /\ \A i \in Lookups, u \in Updates : Log[i].key = RequestKey => i < u

(***************************************************************************)
(* C9: no request looks up the cache or invokes the backend before the     *)
(* cache initialization the constructor started has ended, and once that   *)
(* initialization has failed cacheService is null.                         *)
(***************************************************************************)
C9_InitializationGate ==
  /\ \A i \in Lookups \cup Invokes : Log[i].init # "polling"
  /\ initPc = "failed" => cacheService = "null"

(***************************************************************************)
(* C10: every call of getCacheService ends within 50 attempts, either by   *)
(* returning the one shared instance while it is ready or by throwing; it  *)
(* never returns an instance that is not ready and never creates a second  *)
(* instance.                                                               *)
(***************************************************************************)
C10_GetCacheServiceReady ==
  /\ instancesCreated <= 1
  /\ \A h \in handedOut : h.bounded /\ (h.threw \/ h.ready)

(***************************************************************************)
(* C11: a read operation of CacheService (lookup, get, exists, and         *)
(* lookupPrompt, which is a lookup) never throws, and when connecting or   *)
(* the call of the client fails it returns what it returns on a miss: null *)
(* for lookup and get, false for exists.                                   *)
(***************************************************************************)
ReadOperations == {"lookup", "lookupPrompt", "get", "exists"}

WriteOperations ==
  {"update", "updatePrompt", "set", "del", "expire", "flushCache"}

Miss(op) == IF op = "exists" THEN FALSE ELSE Null

C11_ReadsDegradeToMiss ==
  (cacheOp.op \in ReadOperations /\ cacheOp.ended)
  => /\ ~cacheOp.threw
     /\ cacheOp.failed => cacheOp.value = Miss(cacheOp.op)

\* each read operation has met a failed connect and a failed call of the client
C11_WitnessGet ==
  cacheOp.op = "get" /\ cacheOp.ended /\ cacheOp.failed /\ cacheOp.cut

C11_Witness ==
  cacheOp.op = "exists" /\ cacheOp.ended /\ cacheOp.failed /\ ~cacheOp.cut

(***************************************************************************)
(* C12: a write operation of CacheService (update, set, del, expire,       *)
(* flushCache, and updatePrompt, which is an update) rejects when          *)
(* connecting or the call of the client fails.                             *)
(***************************************************************************)
C12_WritesPropagate ==
  (cacheOp.op \in WriteOperations /\ cacheOp.ended /\ cacheOp.failed)
  => cacheOp.threw

C12_Witness ==
  cacheOp.op = "del" /\ cacheOp.ended /\ cacheOp.failed /\ cacheOp.threw

(***************************************************************************)
(* C13: when generateWithContext has generated a text, from the augmented  *)
(* prompt or from the no-context prompt, and the store of that text under  *)
(* the RAG key fails, the request returns that text.                       *)
(***************************************************************************)
C13_RagWriteFailureNonFatal ==
  (req.op = "generateWithContext" /\ Finished)
  => \A u \in Updates :
       (/\ Log[u].key = req.ragKey
        /\ ~Log[u].ok
        /\ \E j \in Invokes : j < u /\ Log[j].ok /\ Log[j].text = Log[u].text)
       => req.outcome = "returned" /\ req.result = Log[u].text

(***************************************************************************)
(* What the operation of the vector store service tells once it has ended. *)
(***************************************************************************)
\* an operation among ops has ended
VectorDone(ops) == vop.op \in ops /\ vop.ended

\* the operation ran an initializeVectorStore, which has ended
RanInitialize ==
  /\ vop.op \in VectorOperations
  /\ vop.init.ran
  /\ vop.init.ended

\* the collection is there and its width is not the width the embeddings keep
Mismatch ==
  /\ embeddingDimensions # 0
  /\ collection # 0
  /\ collection # embeddingDimensions

\* no initializeVectorStore and no operation of the vector store service runs
VectorSettled == vectorInitPc = "done" /\ ~VectorBusy

(***************************************************************************)
(* C14: while the collection has a width that differs from the embedding   *)
(* width detected at initialization, once every initialization has ended   *)
(* initialization has failed, isReady() is false, healthCheck() returns a  *)
(* non-empty error, and similaritySearch and similaritySearchWithScore     *)
(* return the empty list without a search against the index.               *)
(***************************************************************************)
C14_DimensionMismatchRefusal ==
  (Mismatch /\ VectorSettled)
  => /\ ~vectorIsReady
     /\ RanInitialize => ~vop.init.isInitialized
     /\ VectorDone({"healthCheck"})
        => vop.health.error # "" /\ ~vop.health.connected
     /\ VectorDone(SearchOperations) => ~vop.searched /\ vop.result = << >>

(***************************************************************************)
(* C15: ensureCollection creates an absent collection with the expected    *)
(* width and initialization then succeeds only if the creation succeeded;  *)
(* it throws when the collection has another width and when the status is  *)
(* neither ok nor 404; isInitialized is set true only by an initialization *)
(* whose ensureCollection returned.                                        *)
(***************************************************************************)
C15_EnsureCollectionOutcomes ==
  RanInitialize
  => LET i == vop.init
     IN  /\ i.status = "notFound"
            => /\ i.isInitialized => i.createOk
               /\ i.createOk => i.created = i.expected
               /\ ~i.createOk => i.ensureThrew /\ i.created = 0
         /\ (i.status = "ok" /\ i.found # i.expected) => i.ensureThrew
         /\ i.status = "error" => i.ensureThrew
         /\ i.isInitialized <=> ~i.ensureThrew

C15_Witness ==
  /\ RanInitialize
  /\ vop.init.status = "notFound" /\ vop.init.createOk
  /\ vop.init.created = vop.init.expected /\ vop.init.isInitialized

C15_WitnessOtherStatus ==
  RanInitialize /\ vop.init.status = "error" /\ ~vop.init.isInitialized

(***************************************************************************)
(* C16: whenever the vector store is ready, the width of the collection is *)
(* the width of the vectors the embedding function returns for documents   *)
(* and queries.                                                            *)
(***************************************************************************)
C16_WidthInvariant ==
  vectorIsReady => collection = EmbeddingWidth(embedUp)

(***************************************************************************)
(* C17: similaritySearch and similaritySearchWithScore never throw, and    *)
(* return the empty list when the initialization fails or the call of the  *)
(* index fails.                                                            *)
(***************************************************************************)
C17_RetrievalNeverThrows ==
  VectorDone(SearchOperations)
  => /\ ~vop.threw
     /\ (~vop.ready \/ vop.indexFailed) => vop.result = << >>

C17_Witness ==
  /\ VectorDone({"similaritySearch"})
  /\ vop.ready /\ vop.indexFailed /\ vop.result = << >>

C17_WitnessInitialization ==
  /\ VectorDone({"similaritySearchWithScore"})
  /\ RanInitialize /\ ~vop.ready /\ vop.result = << >>

(***************************************************************************)
(* The probes of LLMService.healthCheck.                                   *)
(***************************************************************************)
\* a healthCheck has returned
HealthDone == health.op = "healthCheck" /\ health.ended

\* healthCheck did not throw, ran its three probes, and each flag tells what its
\* own probe met, whatever the two others met
ProbesIsolated ==
  /\ ~health.threw
  /\ health.probes = << "ollama", "cache", "vectorStore" >>
  /\ health.ollama = health.met.ollama.ok
  /\ health.cache = health.met.cache
  /\ health.vectorStore = health.met.vectorStore.connected

\* the probe of the backend, when it failed, left its error under details.ollama
OllamaErrorRecorded ==
  ~health.met.ollama.ok
  => ~health.ollama /\ health.details.ollama = health.met.ollama.message

\* the probe of the cache, when it failed, left its error under details.cache
CacheErrorRecorded ==
  ~health.met.cache
  => ~health.cache /\ health.details.cache.kind = "error"

\* the probe of the vector store, when it failed, left its error under
\* details.vectorStore
VectorStoreErrorRecorded ==
  ~health.met.vectorStore.connected
  => /\ ~health.vectorStore
     /\ health.details.vectorStore.error = health.met.vectorStore.error
     /\ health.details.vectorStore.error # ""

(***************************************************************************)
(* C18: LLMService.healthCheck never throws and returns ollama, cache,     *)
(* vectorStore and details; the three probes all run whatever the others   *)
(* met; each flag tells only what its own probe met, and a probe that      *)
(* failed, be it that of the backend, of the cache or of the vector store, *)
(* leaves its flag false and its error under its own key of details.       *)
(***************************************************************************)
C18_HealthProbeIsolation ==
  HealthDone
  => /\ ProbesIsolated
     /\ OllamaErrorRecorded
     /\ CacheErrorRecorded
     /\ VectorStoreErrorRecorded

\* what holds of every healthCheck: all of C18 but the error of a failed probe of
\* the cache
HealthProbesButCacheError ==
  HealthDone => ProbesIsolated /\ OllamaErrorRecorded /\ VectorStoreErrorRecorded

\* the probe of the cache failed for want of a cacheService: nothing is written
\* under details.cache
CacheProbeLeavesNothing ==
  HealthDone /\ ~health.met.cache /\ health.details.cache.kind = Absent

\* the probe of the cache failed with the client disconnected: details.cache is
\* the status, which holds no error
CacheProbeLeavesStatus ==
  /\ HealthDone /\ ~health.met.cache
  /\ health.details.cache.kind = "status"
  /\ ~health.details.cache.status.connected

(***************************************************************************)
(* The namespaces of the keys.                                             *)
(***************************************************************************)
\* where the first ':' of a key is, 0 when it has none
FirstColon(key) ==
  IF \E i \in 1..Len(key) : <<key[i]>> = Colon
    THEN CHOOSE i \in 1..Len(key) :
           /\ <<key[i]>> = Colon
           /\ \A j \in 1..(i - 1) : <<key[j]>> # Colon
    ELSE 0

\* the namespace of a key: what it begins with, up to its first ':'
NamespaceOf(key) ==
  IF FirstColon(key) = 0 THEN key ELSE SubSeq(key, 1, FirstColon(key))

\* the pattern that flushes the namespace of a key that generate or
\* generateWithContext stores, and of a key that the health route stores
AdapterPattern(key) == FullKey(NamespaceOf(key)) \o Star

DirectPattern(key) == NamespaceOf(key) \o Star

(***************************************************************************)
(* C19: the keys stored for generate, for generateWithContext and for the  *)
(* health probes have pairwise distinct prefixes, and the flush by the     *)
(* pattern of one namespace deletes no entry of another.                   *)
(***************************************************************************)
C19_NamespacesDisjoint ==
  keyed.op = "derived"
  => LET plain == keyed.keysA.plainKey
         rag == keyed.keysA.ragKey
     IN  /\ NamespaceOf(plain) # NamespaceOf(rag)
         /\ NamespaceOf(plain) # NamespaceOf(HealthKey)
         /\ NamespaceOf(rag) # NamespaceOf(HealthKey)
         /\ ~Matches(AdapterPattern(plain), FullKey(rag))
         /\ ~Matches(AdapterPattern(rag), FullKey(plain))
         /\ ~Matches(AdapterPattern(plain), HealthKey)
         /\ ~Matches(AdapterPattern(rag), HealthKey)
         /\ ~Matches(DirectPattern(HealthKey), FullKey(plain))
         /\ ~Matches(DirectPattern(HealthKey), FullKey(rag))

(***************************************************************************)
(* C20: the keys are functions of what they are derived from, and two      *)
(* requests for the same prompt that differ in exactly one of the model,   *)
(* the temperature, maxDocs and minScore differ in the prefix of the key   *)
(* or in the text that is hashed.                                          *)
(***************************************************************************)
KeyParameters == {"model", "temperature", "maxDocs", "minScore"}

DifferIn(a, b) == {f \in KeyParameters : a[f] # b[f]}

C20_KeyDerivationComplete ==
  keyed.op = "derived"
  => /\ keyed.again = keyed.keysA
     /\ keyed.a = keyed.b => keyed.keysA = keyed.keysB
     /\ Cardinality(DifferIn(keyed.a, keyed.b)) = 1
        => \/ keyed.keysA.prefix # keyed.keysB.prefix
           \/ keyed.keysA.text # keyed.keysB.text

(***************************************************************************)
(* The selection of documents, the prompt, the response text, the delay.   *)
(***************************************************************************)
\* the positions of the documents of found whose score reaches minScore
KeptIndices(found, minScore) == {i \in 1..Len(found) : found[i].score >= minScore}

\* the k-th smallest member of a set of positions
Nth(S, k) == CHOOSE i \in S : Cardinality({j \in S : j <= i}) = k

\* C21: with includeScores exactly the retrieved documents whose score is at least
\* minScore take part in the prompt, in retrieval order; without includeScores all
\* retrieved documents take part whatever minScore is
C21_ScoreFiltering ==
  applied.op = "assembled" =>
    LET found == applied.found
        participating ==
          IF applied.includeScores THEN KeptIndices(found, applied.minScore)
          ELSE 1..Len(found)
    IN  /\ Len(applied.relevantDocs) = Cardinality(participating)
        /\ \A k \in 1..Len(applied.relevantDocs) :
             LET doc == applied.relevantDocs[k]
                 from == found[Nth(participating, k)]
             IN  /\ doc.pageContent = from.pageContent
                 /\ doc.source = from.source
                 /\ applied.includeScores => doc.hasScore /\ doc.score = from.score

\* scores 0.9, 0.6 and 0.2 with minScore 0.5 keep the first two documents
C21_Witness ==
  /\ applied.op = "assembled"
  /\ applied.includeScores
  /\ applied.minScore = 500
  /\ Len(applied.found) = 3
  /\ [i \in 1..3 |-> applied.found[i].score] = << 900, 600, 200 >>
  /\ Len(applied.relevantDocs) = 2

\* a document as the context is to show it: its source or its 1-based position,
\* its score when it has one, its text
ContextBlock(doc, index) ==
  SourceLabel
    \o (IF doc.source # << >> THEN doc.source ELSE DocumentLabel \o Digits(index))
    \o (IF doc.hasScore THEN RelevanceOpen \o ToFixed3(doc.score) \o RelevanceClose
        ELSE << >>)
    \o ContentLabel \o doc.pageContent

RECURSIVE ContextFrom(_, _)
ContextFrom(docs, index) ==
  IF index = Len(docs) THEN ContextBlock(docs[index], index)
  ELSE ContextBlock(docs[index], index) \o Delimiter \o ContextFrom(docs, index + 1)

\* C22: the context of the augmented prompt holds every surviving document once, in
\* retrieval order, as a SOURCE line with the document's source (or 'Document n')
\* followed by its score when it has one, and a CONTENT line with its text; the
\* documents are separated by '---' and the question follows the context
C22_PromptAssembly ==
  applied.op = "assembled" /\ applied.relevantDocs # << >> =>
    applied.text = AugmentedHead \o ContextFrom(applied.relevantDocs, 1)
                     \o AugmentedMiddle \o applied.prompt \o AugmentedTail

\* the fields of a response object in the order of their priority
FieldOrder == << "content", "text", "message", "output", "response" >>

\* the positions in FieldOrder of the fields the response has
PresentFields(r) == {i \in 1..Len(FieldOrder) : r[FieldOrder[i]] # Null}

\* C23: a string response is returned as it is; of an object the first field present
\* in the order content, text, message, output, response gives the text, and only
\* when none of the five is present the conversion to a string is used
C23_ExtractionPriority ==
  applied.op = "extracted" =>
    LET r == applied.response
    IN  IF r.kind = "string" THEN applied.text = r.value
        ELSE IF PresentFields(r) # {}
          THEN applied.text =
                 r[FieldOrder[CHOOSE i \in PresentFields(r) :
                                \A j \in PresentFields(r) : i <= j]]
          ELSE applied.text = r.str

\* C27: the delay before reconnect r is min(r * 100, 5000) milliseconds; it does not
\* decrease with r and never exceeds 5000
C27_ReconnectBackoff ==
  applied.op = "delay" =>
    LET linear == applied.retries * 100
    IN  /\ applied.delay = IF linear <= 5000 THEN linear ELSE 5000
        /\ applied.delay <= 5000
        /\ applied.delay <= applied.next

\* a retry count past the ceiling
C27_Witness == applied.op = "delay" /\ applied.retries = 51 /\ applied.delay = 5000

(***************************************************************************)
(* Degraded embeddings and the addition of documents.                      *)
(***************************************************************************)
\* what a call whose texts the model embedded may leave its caller with, when the
\* service kept the width dims before it
PrimaryObservations(n, dims) ==
  {[widths |-> [i \in 1..n |-> w], embeddingDimensions |-> dims] : w \in ModelWidths}

\* C24: whenever embedQuery or embedDocuments falls back to the hash-based embedding
\* the caller can tell so from the result or from the state of the service: what it
\* is left with is nothing an embedding by the model leaves
C24_ObservableDegradation ==
  VectorDone(EmbeddingOperations) /\ vop.fallback # {} =>
    [widths |-> vop.widths, embeddingDimensions |-> vop.after]
      \notin PrimaryObservations(Len(vop.widths), vop.before)

\* C25: addDocuments does not report success for a batch of which a document could
\* not be embedded or stored: it throws
C25_PartialFailurePolicy ==
  VectorDone({"addDocuments"}) /\ (vop.fallback # {} \/ vop.indexFailed) => vop.threw

(***************************************************************************)
(* GET /health.                                                            *)
(***************************************************************************)
\* the subsystems the health endpoint is to report
Subsystems == {"cache", "ollama", "vectorStore"}

\* C26: GET /health always answers with the state of every subsystem: the cache, the
\* backend and the vector index each have their entry in the response, and a
\* subsystem that is down is never reported as working
C26_HealthEndpoint ==
  served.op = "health" /\ served.pc = "done" =>
    \A s \in Subsystems :
      /\ s \in DOMAIN served.body
      /\ ~served.met[s] => served.body[s] # "working"

(***************************************************************************)
(* Shutdown.                                                               *)
(***************************************************************************)
\* the disconnects that have ended
Disconnects == {shutdown.disconnects[i] : i \in 1..Len(shutdown.disconnects)}

\* the CacheService instances of the process
Instances == {"module"} \cup (IF cacheServiceInstance THEN {"singleton"} ELSE {})

\* C28: on SIGTERM or SIGINT the disconnect of every CacheService instance, the
\* singleton of getCacheService and the module-level cacheService, has ended before
\* the process exits; a disconnect never throws, does nothing when the instance is
\* not connected, and leaves isReady() false
C28_GracefulShutdown ==
  /\ shutdown.pc = "exited" =>
       \A instance \in Instances :
         \E d \in Disconnects : d.instance = instance /\ d.by = "gracefulShutdown"
  /\ \A d \in Disconnects :
       /\ ~d.threw
       /\ ~d.connected => ~d.quit
       /\ ~d.isReady

(***************************************************************************)
(* C29: within one generateWithContext request, every fallback it takes    *)
(* included, the backend is invoked at most once.                          *)
(***************************************************************************)
C29_SingleInvocation ==
  req.op = "generateWithContext" => Cardinality(Invokes) <= 1

\* text begins with prefix
HasPrefix(text, prefix) ==
  Len(text) >= Len(prefix) /\ SubSeq(text, 1, Len(prefix)) = prefix

\* the stores of the request in service that wrote their value
Written == {u \in Updates : Log[u].stored}

\* C30: every value generate or generateWithContext writes to the cache is the text
\* extracted from a successful invocation of the backend by the request; the
\* fallback 'Error generating response: ...' is never stored under any key
C30_OnlyBackendTextCached ==
  \A u \in Written :
    /\ \E j \in Invokes : j < u /\ Log[j].ok /\ Log[j].text = Log[u].text
    /\ ~HasPrefix(Log[u].text, ErrorPrefix)

(***************************************************************************)
(* clearCache.                                                             *)
(***************************************************************************)
\* the keys of the store under which generate and generateWithContext keep texts
GenerationKeys ==
  {FullKey(createCacheKey(p)) : p \in Prompts}
    \cup {FullKey(contextCacheKey(p, o.maxDocs, o.minScore)) :
            p \in Prompts, o \in OptionSets}

\* C31: once clearCache() without a pattern has completed, no entry that generate or
\* generateWithContext stored is left for a lookup to return
C31_ClearCacheInvalidates ==
  (/\ cacheOp.op = "clearCache" /\ cacheOp.arg = Null
   /\ cacheOp.ended /\ ~cacheOp.threw) =>
    GenerationKeys \cap DOMAIN redis = {}

(***************************************************************************)
(* C32: the RAG key does not depend on includeScores: the response that a  *)
(* generateWithContext left in the cache is returned unchanged, without a  *)
(* search and without an invocation of the backend, to the next call with  *)
(* the same prompt, maxDocs and minScore and the other includeScores.      *)
(***************************************************************************)
OtherIncludeScores == RepeatsLast /\ req.options.includeScores # last.includeScores

C32_KeyIgnoresIncludeScores ==
  (last.kind # "none" /\ OtherIncludeScores /\ CacheWorks)
  => /\ req.ragKey = contextCacheKey(last.prompt, last.maxDocs, last.minScore)
     /\ Invokes = {}
     /\ Searches = {}
     /\ Finished => req.outcome = "returned" /\ req.result = last.text

(***************************************************************************)
(* C33: for all prompts p and q and all options the key generate(p) reads  *)
(* and writes differs from the key generateWithContext(q, options) reads   *)
(* and writes.                                                             *)
(***************************************************************************)
C33_PathKeysDistinct ==
  applied.op = "keys" => applied.cacheKey # applied.contextCacheKey

(***************************************************************************)
(* Requests side by side.                                                  *)
(***************************************************************************)
\* every request has returned
Settled == \A i \in 1..MaxRequests : concurrent.requests[i].pc = "done"

\* the key of the store under which generate keeps the text of SharedPrompt
SharedKey == FullKey(createCacheKey(SharedPrompt))

\* C34: for every interleaving of generate requests for one prompt with a working
\* cache and a backend whose texts may differ, once all requests have returned the
\* entry of the prompt's key is the text returned to one of them, and every request
\* that was a cache hit returned a text an earlier invocation had produced
C34_ConcurrentConsistency ==
  /\ Settled =>
       /\ SharedKey \in DOMAIN redis
       /\ \E i \in 1..MaxRequests : redis[SharedKey].value = concurrent.requests[i].result
  /\ \A i \in 1..MaxRequests :
       concurrent.requests[i].pc = "done" /\ concurrent.hit[i] =>
         concurrent.requests[i].result \in concurrent.known[i]

\* two requests missed side by side and returned different texts
C34_Witness ==
  /\ Settled
  /\ ~concurrent.hit[1] /\ ~concurrent.hit[2]
  /\ concurrent.requests[1].result # concurrent.requests[2].result

\* a request was served the text another request had stored
C34_WitnessHit ==
  \E i \in 1..MaxRequests : concurrent.requests[i].pc = "done" /\ concurrent.hit[i]

====
